---- MODULE Spec2Model ----
(***************************************************************************)
(* Skill progression of the Praxis backend (backend/app/domain/services.py *)
(* over the repository of backend/app/infra/repo_sql.py).                  *)
(*                                                                         *)
(* Strings are sequences of one-character strings, so that lower() and the *)
(* substring test `a in b` are computed and not assumed.  A Python dict is *)
(* a sequence of [k, v] records with distinct keys, in insertion order.    *)
(***************************************************************************)
EXTENDS Integers, Sequences, FiniteSets, TLC

VARIABLES
    hasAttrs,      \* the profile has a row in the attributes table
    tech_skills,   \* attributes.tech_skills of the profile (stored)
    soft_skills,   \* attributes.soft_skills of the profile (stored)
    submissions,   \* the submissions table, in order of creation
    feedbacks,     \* the submission_feedbacks table, in order of creation
    req,           \* per client: the create_and_score_submission call in flight
    rs,            \* one call of map_skill_to_user_skill
    dc,            \* one call of calculate_skill_delta_v2
    challenges,    \* the challenges table: the owner profile of each stored id
    gen,           \* the ids given so far, and the last generate_challenges_for_profile call
    attributes,    \* the attributes table seen through the /attributes routes, per user
    http           \* the last request to an /attributes route and its answer

vars == <<hasAttrs, tech_skills, soft_skills, submissions, feedbacks, req, rs, dc,
          challenges, gen, attributes, http>>

\* The tables of the challenge catalogue and of the /attributes routes.
catalogVars == <<challenges, gen>>

attrVars == <<attributes, http>>

-----------------------------------------------------------------------------
(* Bounds of the model.                                                     *)

MaxSubmissions == 2     \* submissions created in one behaviour
MaxAttempt == 6         \* attempt numbers tried on the calculator alone
MaxKeys == 2            \* keys of a skill dict handed to the resolver alone

-----------------------------------------------------------------------------
(* Strings.                                                                 *)

S_Java == <<"J", "a", "v", "a">>
S_JavaScript == <<"J", "a", "v", "a", "S", "c", "r", "i", "p", "t">>
S_java == <<"j", "a", "v", "a">>
S_SQL == <<"S", "Q", "L">>
S_Docker == <<"D", "o", "c", "k", "e", "r">>
S_Comunicacao == <<"C", "o", "m", "u", "n", "i", "c", "a", "ç", "ã", "o">>
S_comunicacao == <<"c", "o", "m", "u", "n", "i", "c", "a", "c", "a", "o">>
S_equipe == <<"e", "q", "u", "i", "p", "e">>
S_Organizacao == <<"O", "r", "g", "a", "n", "i", "z", "a", "ç", "ã", "o">>
S_ComTecnica == <<"C", "o", "m", "u", "n", "i", "c", "a", "ç", "ã", "o", " ", "T", "é", "c", "n", "i", "c", "a">>
S_Planejamento == <<"P", "l", "a", "n", "e", "j", "a", "m", "e", "n", "t", "o">>
S_GestaoEquipe == <<"G", "e", "s", "t", "ã", "o", " ", "d", "e", " ", "e", "q", "u", "i", "p", "e">>
S_ResProblemas == <<"R", "e", "s", "o", "l", "u", "ç", "ã", "o", " ", "d", "e", " ", "P", "r", "o", "b", "l", "e", "m", "a", "s">>
S_Lideranca == <<"L", "i", "d", "e", "r", "a", "n", "ç", "a">>
S_Empty == <<>>

\* Python's None where a str is expected: no string, since every element of a
\* string is one character.
None == <<"None">>

UpperChars == <<"A", "B", "C", "D", "E", "F", "G", "H", "I", "J", "K", "L", "M",
                "N", "O", "P", "Q", "R", "S", "T", "U", "V", "W", "X", "Y", "Z",
                "Ç", "Ã", "Õ", "Á", "É", "Í", "Ó", "Ú", "Â", "Ê", "Ô">>
LowerChars == <<"a", "b", "c", "d", "e", "f", "g", "h", "i", "j", "k", "l", "m",
                "n", "o", "p", "q", "r", "s", "t", "u", "v", "w", "x", "y", "z",
                "ç", "ã", "õ", "á", "é", "í", "ó", "ú", "â", "ê", "ô">>

\* str.lower(), character by character.
LowerChar(c) ==
    IF \E i \in 1..Len(UpperChars) : UpperChars[i] = c
    THEN LowerChars[CHOOSE i \in 1..Len(UpperChars) : UpperChars[i] = c]
    ELSE c

Lower(s) == [i \in 1..Len(s) |-> LowerChar(s[i])]

\* Python's `a in b` on two strings.
IsSubstring(a, b) ==
    \E i \in 0..(Len(b) - Len(a)) : SubSeq(b, i + 1, i + Len(a)) = a

\* any(keyword in s for keyword in keywords)
AnyKeywordIn(keywords, s) ==
    \E j \in 1..Len(keywords) : IsSubstring(keywords[j], s)

-----------------------------------------------------------------------------
(* Dicts of skills.                                                         *)

DictKeys(d) == {d[i].k : i \in 1..Len(d)}

HasKey(d, key) == \E i \in 1..Len(d) : d[i].k = key

\* d[key], for a key of d
DictGet(d, key) == d[CHOOSE i \in 1..Len(d) : d[i].k = key].v

\* d.get(key, default)
DictGetDefault(d, key, default) ==
    IF HasKey(d, key) THEN DictGet(d, key) ELSE default

\* d[key] = value: an existing key keeps its place, a new key goes last.
DictSet(d, key, value) ==
    IF HasKey(d, key)
    THEN [i \in 1..Len(d) |-> IF d[i].k = key THEN [k |-> key, v |-> value] ELSE d[i]]
    ELSE Append(d, [k |-> key, v |-> value])

-----------------------------------------------------------------------------
(* map_skill_to_user_skill                                                  *)

comunicacao_keywords ==
    << <<"c", "o", "m", "u", "n", "i", "c", "a", "ç", "ã", "o">>,
       <<"c", "o", "m", "u", "n", "i", "c", "a", "c", "a", "o">>,
       <<"c", "o", "m", "u", "n", "i", "c", "a", "r">>,
       <<"e", "x", "p", "l", "i", "c", "a", "r">>,
       <<"e", "s", "c", "r", "e", "v", "e", "r">>,
       <<"m", "e", "n", "s", "a", "g", "e", "m">>,
       <<"e", "m", "a", "i", "l">>,
       <<"t", "é", "c", "n", "i", "c", "a">>,
       <<"t", "e", "c", "n", "i", "c", "a">>,
       <<"e", "q", "u", "i", "p", "e">> >>

organizacao_keywords ==
    << <<"o", "r", "g", "a", "n", "i", "z", "a", "ç", "ã", "o">>,
       <<"o", "r", "g", "a", "n", "i", "z", "a", "c", "a", "o">>,
       <<"o", "r", "g", "a", "n", "i", "z", "a", "r">>,
       <<"p", "l", "a", "n", "e", "j", "a", "r">>,
       <<"p", "l", "a", "n", "e", "j", "a", "m", "e", "n", "t", "o">>,
       <<"p", "r", "i", "o", "r", "i", "z", "a", "r">>,
       <<"g", "e", "r", "e", "n", "c", "i", "a", "r">>,
       <<"g", "e", "s", "t", "ã", "o">>,
       <<"g", "e", "s", "t", "a", "o">> >>

resolucao_keywords ==
    << <<"r", "e", "s", "o", "l", "u", "ç", "ã", "o">>,
       <<"r", "e", "s", "o", "l", "u", "c", "a", "o">>,
       <<"r", "e", "s", "o", "l", "v", "e", "r">>,
       <<"p", "r", "o", "b", "l", "e", "m", "a">>,
       <<"d", "e", "b", "u", "g", "a", "r">>,
       <<"d", "e", "b", "u", "g">>,
       <<"i", "n", "v", "e", "s", "t", "i", "g", "a", "r">>,
       <<"a", "n", "á", "l", "i", "s", "e">>,
       <<"a", "n", "a", "l", "i", "s", "e">> >>

\* The body of the soft-skill loop for one user skill: TRUE when it returns
\* user_skill.
SoftSkillHit(skill_lower, user_skill_lower) ==
    \/ /\ AnyKeywordIn(comunicacao_keywords, skill_lower)
       /\ AnyKeywordIn(comunicacao_keywords, user_skill_lower)
    \/ /\ AnyKeywordIn(organizacao_keywords, skill_lower)
       /\ AnyKeywordIn(organizacao_keywords, user_skill_lower)
    \/ /\ AnyKeywordIn(resolucao_keywords, skill_lower)
       /\ AnyKeywordIn(resolucao_keywords, user_skill_lower)

\* The body of the tech-skill loop for one user skill.
TechSkillHit(skill_lower, user_skill_lower) ==
    \/ IsSubstring(skill_lower, user_skill_lower)
    \/ IsSubstring(user_skill_lower, skill_lower)

\* `for user_skill in user_skills.keys()`: the first key, from position i on,
\* at which the loop body returns; None when the loop ends.
RECURSIVE SoftSkillLoop(_, _, _)
SoftSkillLoop(skill_name, user_skills, i) ==
    IF i > Len(user_skills) THEN None
    ELSE IF SoftSkillHit(Lower(skill_name), Lower(user_skills[i].k))
         THEN user_skills[i].k
         ELSE SoftSkillLoop(skill_name, user_skills, i + 1)

RECURSIVE TechSkillLoop(_, _, _)
TechSkillLoop(skill_name, user_skills, i) ==
    IF i > Len(user_skills) THEN None
    ELSE IF TechSkillHit(Lower(skill_name), Lower(user_skills[i].k))
         THEN user_skills[i].k
         ELSE TechSkillLoop(skill_name, user_skills, i + 1)

\* The exact match of the mutant: compared without regard to case.
ExactMatchAnyCase(skill_name, user_skills) ==
    \E i \in 1..Len(user_skills) : Lower(user_skills[i].k) = Lower(skill_name)

\* `skill_name in user_skills`
ExactMatch(skill_name, user_skills) == HasKey(user_skills, skill_name)

\* The mutant of map_skill_to_user_skill: the loops run first and the exact
\* match is the last resort.
map_skill_fuzzy_first(skill_name, user_skills, is_soft_skill) ==
    LET fuzzy == IF is_soft_skill THEN SoftSkillLoop(skill_name, user_skills, 1)
                 ELSE TechSkillLoop(skill_name, user_skills, 1)
    IN IF fuzzy # None THEN fuzzy
       ELSE IF ExactMatch(skill_name, user_skills) THEN skill_name ELSE None

map_skill_to_user_skill(skill_name, user_skills, is_soft_skill) ==
    IF ExactMatch(skill_name, user_skills) THEN skill_name
    ELSE IF is_soft_skill THEN SoftSkillLoop(skill_name, user_skills, 1)
    ELSE TechSkillLoop(skill_name, user_skills, 1)

-----------------------------------------------------------------------------
(* calculate_skill_delta_v2 and calculate_skill_delta                       *)
(*                                                                          *)
(* The floats of the source are exact rationals here.  progression_intensity*)
(* is carried in tenths (int10 = 7 is 0.7); an optional key of a dict is a  *)
(* sequence of length 0 (absent) or 1.  A ganho is the record               *)
(*   [sign, H, L, D]  of value  sign * (H + L/10000) / D,  0 <= L < 10000,  *)
(* which keeps every intermediate product within 32 bits.                   *)

\* 1 / (1 + math.exp((skill_atual - 70) / 10)) in units of 1/10000, for
\* skill_atual = 0, 1, ..., 100 (CurveE4[skill_atual + 1]).
CurveE4 ==
    << 9991, 9990, 9989, 9988, 9986, 9985, 9983, 9982, 9980, 9978,
       9975, 9973, 9970, 9967, 9963, 9959, 9955, 9950, 9945, 9939,
       9933, 9926, 9918, 9910, 9900, 9890, 9879, 9866, 9852, 9837,
       9820, 9802, 9781, 9759, 9734, 9707, 9677, 9644, 9608, 9569,
       9526, 9478, 9427, 9370, 9309, 9241, 9168, 9089, 9002, 8909,
       8808, 8699, 8581, 8455, 8320, 8176, 8022, 7858, 7685, 7503,
       7311, 7109, 6900, 6682, 6457, 6225, 5987, 5744, 5498, 5250,
       5000, 4750, 4502, 4256, 4013, 3775, 3543, 3318, 3100, 2891,
       2689, 2497, 2315, 2142, 1978, 1824, 1680, 1545, 1419, 1301,
       1192, 1091, 998, 911, 832, 759, 691, 630, 573, 522,
       474 >>

curva(skill_atual) == CurveE4[skill_atual + 1]

Abs(n) == IF n < 0 THEN -n ELSE n

Sign(n) == IF n < 0 THEN -1 ELSE IF n > 0 THEN 1 ELSE 0

\* pesos.get(dificuldade_level, 1.0), in tenths
peso(dificuldade_level) ==
    CASE dificuldade_level = "easy" -> 7
      [] dificuldade_level = "medium" -> 10
      [] dificuldade_level = "hard" -> 13
      [] OTHER -> 10

\* The mutant of penal: the penalty without its floor of 60%.
penalNoFloor(tentativas) == 10 - (tentativas - 1)

\* max(0.6, 1 - 0.1 * (tentativas - 1)), in tenths
penal(tentativas) ==
    IF 10 - (tentativas - 1) > 6 THEN 10 - (tentativas - 1) ELSE 6

\* skill_assessment.get("skill_level_demonstrated", skill_atual)
skill_demonstrated(skill_assessment, skill_atual) ==
    IF skill_assessment.dem = <<>> THEN skill_atual ELSE skill_assessment.dem[1]

\* skill_assessment.get("progression_intensity", 0.0), in tenths
intensity(skill_assessment) ==
    IF skill_assessment.int10 = <<>> THEN 0 ELSE skill_assessment.int10[1]

\* nota_factor as the fraction num / den
nota_factor(nota_geral, int10) ==
    IF nota_geral < 50
    THEN [num |-> (nota_geral - 50) * (IF int10 < 0 THEN 10 + Abs(int10) ELSE 10),
          den |-> 500]
    ELSE IF nota_geral >= 90 THEN [num |-> 20, den |-> 10]
    ELSE IF nota_geral >= 75 THEN [num |-> 15, den |-> 10]
    ELSE IF nota_geral >= 60 THEN [num |-> 10, den |-> 10]
    ELSE [num |-> 6, den |-> 10]

\* The ganho  A * cm / (10000 * D)  for integers A, cm >= 0, D > 0.
MakeGanho(A, cm, D) ==
    LET a == Abs(A)
        a1 == a \div 10000
        a0 == a % 10000
        lo == a0 * cm
    IN [sign |-> IF cm = 0 THEN 0 ELSE Sign(A),
        H |-> a1 * cm + (lo \div 10000),
        L |-> lo % 10000,
        D |-> D]

\* |ganho| < n, for an integer n > 0
AbsLess(g, n) == g.H < n * g.D

\* int(round(ganho)): Python rounds a tie to the even integer.
RoundGanho(g) ==
    LET q == g.H \div g.D
        r == g.H % g.D
        up == \/ 2 * r > g.D
              \/ 2 * r = g.D /\ (g.L > 0 \/ q % 2 = 1)
    IN g.sign * (IF up THEN q + 1 ELSE q)

\* ganho = gap * intensity * nota_factor * peso * curva * penal / 10.0
GanhoV2(skill_atual, nota_geral, skill_assessment, dificuldade_level, tentativas) ==
    LET int10 == intensity(skill_assessment)
        gap == skill_demonstrated(skill_assessment, skill_atual) - skill_atual
        nf == nota_factor(nota_geral, int10)
    IN MakeGanho(gap * int10 * nf.num * peso(dificuldade_level) * penal(tentativas),
                 curva(skill_atual), nf.den * 10000)

\* The mutant of Guardrail: the minimums for extreme scores are left out.
GuardrailOff(nota_geral, g) == RoundGanho(g)

\* "Garante mínimos de mudança para notas extremas", then int(round(ganho))
Guardrail(nota_geral, g) ==
    IF nota_geral >= 90 /\ g.sign = 1 /\ AbsLess(g, 3) THEN 3
    ELSE IF nota_geral < 40 /\ g.sign = -1 /\ AbsLess(g, 2) THEN -2
    ELSE RoundGanho(g)

\* The mutant of calculate_skill_delta_v2: a floor of one point of change in the
\* direction of the score band, whatever the intensity.
calculate_skill_delta_v2_floor(skill_atual, nota_geral, skill_assessment, dificuldade_level, tentativas) ==
    LET d == Guardrail(nota_geral, GanhoV2(skill_atual, nota_geral, skill_assessment,
                                           dificuldade_level, tentativas))
    IN IF d # 0 THEN d ELSE IF nota_geral < 50 THEN -1 ELSE 1

calculate_skill_delta_v2(skill_atual, nota_geral, skill_assessment, dificuldade_level, tentativas) ==
    Guardrail(nota_geral, GanhoV2(skill_atual, nota_geral, skill_assessment,
                                  dificuldade_level, tentativas))

\* The first formula, kept for the single-skill fallback:
\* ganho = gap * intensity * peso * curva * penal / 15.0
calculate_skill_delta(skill_atual, skill_assessment, dificuldade_level, tentativas) ==
    LET int10 == intensity(skill_assessment)
        gap == skill_demonstrated(skill_assessment, skill_atual) - skill_atual
    IN RoundGanho(MakeGanho(gap * int10 * peso(dificuldade_level) * penal(tentativas),
                            curva(skill_atual), 15000))

\* The mutant of clamp_skill: only the lower limit is kept.
clamp_skill_no_max(value) == IF value < 0 THEN 0 ELSE value

\* max(0, min(100, value))
clamp_skill(value) ==
    LET m == IF value < 100 THEN value ELSE 100
    IN IF m > 0 THEN m ELSE 0

-----------------------------------------------------------------------------
(* The state of the service when no call is in flight.                      *)

Clients == {"c1", "c2"}

\* The profile whose submissions and skills are followed (current_user.id), a
\* second stored profile, and an id with no row in profiles.
Profile == "p1"

OtherProfile == "p2"

UnknownProfile == "p0"

StoredProfiles == {Profile, OtherProfile}

\* A call of create_and_score_submission: its position (pc) and its locals.
\* An Optional value is <<>> (None) or <<x>>.
IdleReq ==
    [pc |-> "idle",
     challenge_id |-> 0,            \* submission_data["challenge_id"]
     attempts |-> 0,
     submission_id |-> 0,           \* submission["id"]
     eval_result |-> <<>>,          \* <<the AI's answer>> once evaluated
     pre |-> <<>>,                  \* <<[tech, soft]>>: the stored dicts when the call began
     path |-> "none",               \* the branch of step 7: none, multi or legacy
     current_skills |-> <<>>,       \* the dict read for the progression, as modified
     staged |-> <<>>,               \* <<what the write will return>>
     prog_failed |-> FALSE,         \* an except clause of step 7 has run
     reads |-> <<>>,                \* skill dicts read, in order: "tech_skills" / "soft_skills"
     writes |-> <<>>,               \* skill dicts written, in order
     skills_progression |-> <<>>,
     target_skill |-> None,
     delta_applied |-> <<>>,
     updated_skill_value |-> <<>>,
     result |-> <<>>,               \* <<the dict returned>>
     raised |-> ""]                 \* the exception that left the call

\* No challenge id given yet, no generate_challenges_for_profile call made.
IdleGen == [last_id |-> 0, call |-> <<>>]

ServiceIdle ==
    /\ hasAttrs = FALSE
    /\ tech_skills = <<>>
    /\ soft_skills = <<>>
    /\ submissions = <<>>
    /\ feedbacks = <<>>
    /\ req = [c \in Clients |-> IdleReq]
    /\ challenges = <<>>
    /\ gen = IdleGen
    /\ attributes = <<>>
    /\ http = <<>>

serviceVars == <<hasAttrs, tech_skills, soft_skills, submissions, feedbacks, req,
                 catalogVars, attrVars>>

-----------------------------------------------------------------------------
(* SpecResolver: map_skill_to_user_skill on its own.                        *)

ResolverKeys ==
    {S_Java, S_JavaScript, S_SQL, S_Comunicacao, S_equipe, S_Organizacao, S_Empty}

ResolverLabels ==
    ResolverKeys \cup {S_java, S_Docker, S_comunicacao, S_ComTecnica, S_Planejamento,
                       S_GestaoEquipe, S_ResProblemas, S_Lideranca}

\* The dicts of at most n distinct keys of K, in every order, every level 50.
RECURSIVE DictsOver(_, _)
DictsOver(K, n) ==
    IF n = 0 THEN {<<>>}
    ELSE LET shorter == DictsOver(K, n - 1)
         IN shorter \cup
            {Append(d, [k |-> key, v |-> 50]) :
                 <<d, key>> \in {x \in shorter \X K : ~HasKey(x[1], x[2])}}

IdleRs == [skill_name |-> <<>>, user_skills |-> <<>>, is_soft_skill |-> FALSE,
           done |-> FALSE, result |-> None]

IdleDc == [skill_atual |-> 0, nota_geral |-> 0, assessment |-> [dem |-> <<>>, int10 |-> <<>>],
           dificuldade_level |-> "medium", tentativas |-> 1, done |-> FALSE, delta |-> 0]

ResolverInit ==
    /\ ServiceIdle
    /\ dc = IdleDc
    /\ rs \in [skill_name : ResolverLabels, user_skills : DictsOver(ResolverKeys, MaxKeys),
               is_soft_skill : BOOLEAN, done : {FALSE}, result : {None}]

Resolve ==
    /\ ~rs.done
    /\ rs' = [rs EXCEPT !.done = TRUE,
                        !.result = map_skill_to_user_skill(rs.skill_name, rs.user_skills,
                                                           rs.is_soft_skill)]
    /\ UNCHANGED <<serviceVars, dc, catalogVars, attrVars>>

ResolverNext == Resolve

SpecResolver == ResolverInit /\ [][ResolverNext]_vars

-----------------------------------------------------------------------------
(* SpecDelta: calculate_skill_delta_v2 on its own.                          *)

DeltaLevels == {0, 50, 70, 98, 100}

DeltaNotas == {0, 30, 39, 40, 49, 50, 59, 60, 75, 85, 90, 100}

Optional(S) == {<<>>} \cup {<<x>> : x \in S}

DeltaAssessments ==
    [dem : Optional({0, 65, 75, 100}), int10 : Optional({-10, -4, 0, 1, 7, 10})]

Difficulties == {"easy", "medium", "hard", "expert"}

DeltaInit ==
    /\ ServiceIdle
    /\ rs = IdleRs
    /\ dc \in [skill_atual : DeltaLevels, nota_geral : DeltaNotas,
               assessment : DeltaAssessments, dificuldade_level : Difficulties,
               tentativas : 1..MaxAttempt, done : {FALSE}, delta : {0}]

Calculate ==
    /\ ~dc.done
    /\ dc' = [dc EXCEPT !.done = TRUE,
                        !.delta = calculate_skill_delta_v2(dc.skill_atual, dc.nota_geral,
                                      dc.assessment, dc.dificuldade_level, dc.tentativas)]
    /\ UNCHANGED <<serviceVars, rs>>

DeltaNext == Calculate

SpecDelta == DeltaInit /\ [][DeltaNext]_vars

\* The raw delta of the call in dc, before the guardrails and the rounding.
DcGanho == GanhoV2(dc.skill_atual, dc.nota_geral, dc.assessment,
                   dc.dificuldade_level, dc.tentativas)

-----------------------------------------------------------------------------
(* process_multiple_skills: the loop over the assessed skills.              *)

\* An assessment whose skill_level_demonstrated is no number ("high"): the
\* subtraction in the calculators raises TypeError.
BadNumber == <<"high", "str">>

IsMalformed(skill_assessment) == Len(skill_assessment.dem) > 1

\* The mutant of AlreadyProcessed: a resolved skill is never taken as seen.
AlreadyProcessedNever(deltas, user_skill_name) == FALSE

\* `if user_skill_name in deltas`
AlreadyProcessed(deltas, user_skill_name) == HasKey(deltas, user_skill_name)

\* The mutant of process_entries: a label that resolves to no skill of the
\* user ends the loop with an exception.
RECURSIVE process_entries_strict(_, _, _, _, _, _, _)
process_entries_strict(skills_assessment, i, st, nota_geral, difficulty_level, attempts, is_soft_skill) ==
    IF i > Len(skills_assessment) \/ st.raised THEN st
    ELSE
      LET assessment == skills_assessment[i].v
          user_skill_name == map_skill_to_user_skill(skills_assessment[i].k,
                                                     st.current_skills, is_soft_skill)
          skill_atual == DictGet(st.current_skills, user_skill_name)
          delta == calculate_skill_delta_v2(skill_atual, nota_geral, assessment,
                                            difficulty_level, attempts)
          new_value == clamp_skill(skill_atual + delta)
          next ==
            IF user_skill_name = None THEN [st EXCEPT !.raised = TRUE]
            ELSE IF AlreadyProcessed(st.deltas, user_skill_name) THEN st
            ELSE IF IsMalformed(assessment) THEN [st EXCEPT !.raised = TRUE]
            ELSE [current_skills |-> DictSet(st.current_skills, user_skill_name, new_value),
                  deltas |-> DictSet(st.deltas, user_skill_name, delta),
                  new_values |-> DictSet(st.new_values, user_skill_name, new_value),
                  raised |-> FALSE]
      IN process_entries_strict(skills_assessment, i + 1, next, nota_geral,
                                difficulty_level, attempts, is_soft_skill)

\* The mutant of process_entries: new_values records the level before the
\* clamp.
RECURSIVE process_entries_raw_values(_, _, _, _, _, _, _)
process_entries_raw_values(skills_assessment, i, st, nota_geral, difficulty_level, attempts, is_soft_skill) ==
    IF i > Len(skills_assessment) \/ st.raised THEN st
    ELSE
      LET assessment == skills_assessment[i].v
          user_skill_name == map_skill_to_user_skill(skills_assessment[i].k,
                                                     st.current_skills, is_soft_skill)
          skill_atual == DictGet(st.current_skills, user_skill_name)
          delta == calculate_skill_delta_v2(skill_atual, nota_geral, assessment,
                                            difficulty_level, attempts)
          new_value == clamp_skill(skill_atual + delta)
          next ==
            IF user_skill_name = None THEN st
            ELSE IF AlreadyProcessed(st.deltas, user_skill_name) THEN st
            ELSE IF IsMalformed(assessment) THEN [st EXCEPT !.raised = TRUE]
            ELSE [current_skills |-> DictSet(st.current_skills, user_skill_name, new_value),
                  deltas |-> DictSet(st.deltas, user_skill_name, delta),
                  new_values |-> DictSet(st.new_values, user_skill_name, skill_atual + delta),
                  raised |-> FALSE]
      IN process_entries_raw_values(skills_assessment, i + 1, next, nota_geral,
                                    difficulty_level, attempts, is_soft_skill)

\* The loop `for assessed_skill_name in skills_assessment.keys()` from entry i
\* on, over st = [current_skills, deltas, new_values, raised].
RECURSIVE process_entries(_, _, _, _, _, _, _)
process_entries(skills_assessment, i, st, nota_geral, difficulty_level, attempts, is_soft_skill) ==
    IF i > Len(skills_assessment) \/ st.raised THEN st
    ELSE
      LET assessment == skills_assessment[i].v
          user_skill_name == map_skill_to_user_skill(skills_assessment[i].k,
                                                     st.current_skills, is_soft_skill)
          skill_atual == DictGet(st.current_skills, user_skill_name)
          delta == calculate_skill_delta_v2(skill_atual, nota_geral, assessment,
                                            difficulty_level, attempts)
          new_value == clamp_skill(skill_atual + delta)
          next ==
            IF user_skill_name = None THEN st
            ELSE IF AlreadyProcessed(st.deltas, user_skill_name) THEN st
            ELSE IF IsMalformed(assessment) THEN [st EXCEPT !.raised = TRUE]
            ELSE [current_skills |-> DictSet(st.current_skills, user_skill_name, new_value),
                  deltas |-> DictSet(st.deltas, user_skill_name, delta),
                  new_values |-> DictSet(st.new_values, user_skill_name, new_value),
                  raised |-> FALSE]
      IN process_entries(skills_assessment, i + 1, next, nota_geral, difficulty_level,
                         attempts, is_soft_skill)

Range(f) == {f[i] : i \in DOMAIN f}

\* The mutant of InAffected: every assessed label passes the validation.
InAffectedAlways(entry, affected_skills) == TRUE

\* The validation after the AI: the entries whose label is in affected_skills.
InAffected(entry, affected_skills) == entry.k \in Range(affected_skills)

validated_assessment(skills_assessment, affected_skills) ==
    SelectSeq(skills_assessment, LAMBDA e : InAffected(e, affected_skills))

\* apply_skill_update(tech_skills, target_skill, delta)
apply_skill_update(skills, target_skill, delta) ==
    IF target_skill = S_Empty \/ target_skill = None THEN skills
    ELSE DictSet(skills, target_skill,
                 clamp_skill(DictGetDefault(skills, target_skill, 50) + delta))

-----------------------------------------------------------------------------
(* The challenges stored and what the AI may answer to a submission.        *)

Entry(dem, int10) == [dem |-> <<dem>>, int10 |-> <<int10>>]

KV(key, value) == [k |-> key, v |-> value]

\* challenges[id]: category, difficulty.level, description.affected_skills and
\* description.target_skill of the stored challenge id.
Challenges ==
    [id \in 1..5 |->
       CASE id = 1 -> [category |-> "code", level |-> "medium",
                       affected_skills |-> <<S_JavaScript, S_java, S_Docker>>,
                       target_skill |-> None]
         [] id = 2 -> [category |-> "daily-task", level |-> "hard",
                       affected_skills |-> <<S_ComTecnica, S_equipe, S_Lideranca>>,
                       target_skill |-> None]
         [] id = 3 -> [category |-> "daily-task", level |-> "easy",
                       affected_skills |-> <<>>,
                       target_skill |-> S_comunicacao]
         [] id = 4 -> [category |-> "code", level |-> "medium",
                       affected_skills |-> <<>>,
                       target_skill |-> None]
         [] id = 5 -> [category |-> "code", level |-> "hard",
                       affected_skills |-> <<S_Java, S_SQL>>,
                       target_skill |-> S_Java]]

ChallengeIds == DOMAIN Challenges

\* An id of no stored challenge.
UnknownChallenge == Cardinality(ChallengeIds) + 1

\* The answers of ai.evaluate_submission tried for each challenge: nota_geral,
\* skills_assessment (a dict, in the order of the answer) and skill_assessment
\* (the old single shape, <<>> when it is missing or empty).
AIResponses ==
    [id \in ChallengeIds |->
       CASE id = 1 ->
              {[nota_geral |-> 95,
                skills_assessment |-> <<KV(S_JavaScript, Entry(100, 10)),
                                        KV(S_java, Entry(20, -10)),
                                        KV(S_SQL, Entry(100, 10)),
                                        KV(S_Docker, Entry(50, 5))>>,
                skill_assessment |-> <<Entry(70, 3)>>],
               [nota_geral |-> 70,
                skills_assessment |-> <<KV(S_Docker, Entry(60, 5)),
                                        KV(S_JavaScript, [dem |-> BadNumber, int10 |-> <<5>>])>>,
                skill_assessment |-> <<>>],
               [nota_geral |-> 60,
                skills_assessment |-> <<KV(S_Docker, Entry(60, 5)),
                                        KV(S_java, Entry(80, 7))>>,
                skill_assessment |-> <<>>]}
         [] id = 2 ->
              {[nota_geral |-> 85,
                skills_assessment |-> <<KV(S_ComTecnica, Entry(100, 7)),
                                        KV(S_equipe, Entry(0, 10)),
                                        KV(S_Lideranca, Entry(90, 5)),
                                        KV(S_Organizacao, Entry(100, 10))>>,
                skill_assessment |-> <<>>],
               [nota_geral |-> 30,
                skills_assessment |-> <<KV(S_Lideranca, Entry(10, -5))>>,
                skill_assessment |-> <<>>]}
         [] id = 3 ->
              {[nota_geral |-> 85,
                skills_assessment |-> <<>>,
                skill_assessment |-> <<Entry(88, 7)>>],
               [nota_geral |-> 60,
                skills_assessment |-> <<KV(S_comunicacao, Entry(100, 10))>>,
                skill_assessment |-> <<>>]}
         [] id = 4 ->
              {[nota_geral |-> 50,
                skills_assessment |-> <<KV(S_Java, Entry(100, 10))>>,
                skill_assessment |-> <<Entry(70, 3)>>]}
         [] id = 5 ->
              {[nota_geral |-> 90,
                skills_assessment |-> <<>>,
                skill_assessment |-> <<Entry(100, 10)>>],
               [nota_geral |-> 95,
                skills_assessment |-> <<KV(S_Java, Entry(100, 10)),
                                        KV(S_SQL, Entry(100, 10))>>,
                skill_assessment |-> <<>>],
               [nota_geral |-> 0,
                skills_assessment |-> <<KV(S_SQL, Entry(100, 10)),
                                        KV(S_Java, Entry(100, -10))>>,
                skill_assessment |-> <<>>],
               [nota_geral |-> 75,
                skills_assessment |-> <<KV(S_SQL, Entry(65, 7)),
                                        KV(S_Java, [dem |-> BadNumber, int10 |-> <<5>>])>>,
                skill_assessment |-> <<>>]}]

\* The skill dicts a profile with attributes may start from.
InitialTechSkills ==
    {<<KV(S_Java, 98), KV(S_SQL, 1)>>,
     <<KV(S_SQL, 100), KV(S_JavaScript, 0), KV(S_Java, 50)>>}

InitialSoftSkills ==
    {<<KV(S_equipe, 80), KV(S_Organizacao, 60)>>,
     <<KV(S_Comunicacao, 100), KV(S_equipe, 0)>>}

-----------------------------------------------------------------------------
(* SubmissionService.create_and_score_submission, one repository or AI call *)
(* per action.                                                              *)

InFlight(c) == req[c].pc \notin {"idle", "returned", "raised"}

\* The stored dict of a skill type, as get_tech_skills / get_soft_skills copy it.
StoredSkills(skill_type) ==
    IF skill_type = "soft_skills" THEN soft_skills ELSE tech_skills

\* affected_skills of step 7, with the fallback to description.target_skill
AffectedSkills(ch) ==
    IF ch.affected_skills # <<>> THEN ch.affected_skills
    ELSE IF ch.target_skill \notin {None, S_Empty} THEN <<ch.target_skill>>
    ELSE <<>>

\* The branch of step 7 taken for a challenge and an answer of the AI.
ProgressionPath(ch, e) ==
    IF AffectedSkills(ch) # <<>> /\ e.skills_assessment # <<>> THEN "multi"
    ELSE IF AffectedSkills(ch) # <<>> /\ e.skill_assessment # <<>> THEN "legacy"
    ELSE "none"

\* The mutant of ProgressionFailed: the exception of step 7 leaves the call.
ProgressionFailedRaises(r) ==
    [r EXCEPT !.pc = "raised", !.raised = "Exception", !.prog_failed = TRUE]

\* `except Exception as e: logger.warning(...)` of step 7: the call goes on to
\* step 8 with what it had.
ProgressionFailed(r) == [r EXCEPT !.pc = "progressed", !.prog_failed = TRUE]

\* Step 1: get_challenge, and ChallengeNotFoundError when there is none.
Start(c, id) ==
    /\ ~InFlight(c)
    /\ Len(submissions) < MaxSubmissions
    /\ req' = [req EXCEPT ![c] =
                 [IdleReq EXCEPT
                    !.challenge_id = id,
                    !.pre = <<[tech |-> tech_skills, soft |-> soft_skills]>>,
                    !.pc = IF id \in DOMAIN challenges THEN "validated" ELSE "raised",
                    !.raised = IF id \in DOMAIN challenges THEN ""
                               ELSE "ChallengeNotFoundError"]]
    /\ UNCHANGED <<hasAttrs, tech_skills, soft_skills, submissions, feedbacks, rs, dc, catalogVars, attrVars>>

\* Step 2: count_attempts + 1.
CountAttempts(c) ==
    /\ req[c].pc = "validated"
    /\ req' = [req EXCEPT ![c].pc = "counted",
                          ![c].attempts =
                              Cardinality({i \in 1..Len(submissions) :
                                  submissions[i].challenge_id = req[c].challenge_id}) + 1]
    /\ UNCHANGED <<hasAttrs, tech_skills, soft_skills, submissions, feedbacks, rs, dc, catalogVars, attrVars>>

\* Step 3: create_submission with status "sent".
CreateSubmission(c) ==
    /\ req[c].pc = "counted"
    /\ submissions' = Append(submissions,
                             [challenge_id |-> req[c].challenge_id,
                              attempt_number |-> req[c].attempts,
                              status |-> "sent"])
    /\ req' = [req EXCEPT ![c].pc = "created",
                          ![c].submission_id = Len(submissions) + 1]
    /\ UNCHANGED <<hasAttrs, tech_skills, soft_skills, feedbacks, rs, dc, catalogVars, attrVars>>

\* The mutant of MarkEvaluating: the AI is called with the submission still
\* stored as "sent".
MarkEvaluatingSkipped(c) ==
    /\ req[c].pc = "created"
    /\ req' = [req EXCEPT ![c].pc = "evaluating"]
    /\ UNCHANGED <<hasAttrs, tech_skills, soft_skills, submissions, feedbacks, rs, dc,
                   catalogVars, attrVars>>

\* Step 4: update_submission to "evaluating".
MarkEvaluating(c) ==
    /\ req[c].pc = "created"
    /\ submissions' = [submissions EXCEPT ![req[c].submission_id].status = "evaluating"]
    /\ req' = [req EXCEPT ![c].pc = "evaluating"]
    /\ UNCHANGED <<hasAttrs, tech_skills, soft_skills, feedbacks, rs, dc, catalogVars, attrVars>>

\* Step 5: ai.evaluate_submission answers.
EvaluateOk(c) ==
    /\ req[c].pc = "evaluating"
    /\ \E e \in AIResponses[req[c].challenge_id] :
          req' = [req EXCEPT ![c].pc = "evaluated",
                             ![c].eval_result = <<e>>,
                             ![c].path = ProgressionPath(Challenges[req[c].challenge_id], e)]
    /\ UNCHANGED <<hasAttrs, tech_skills, soft_skills, submissions, feedbacks, rs, dc, catalogVars, attrVars>>

\* The mutant of EvaluateFail: AIEvaluationError leaves the call and the
\* submission keeps the status it had.
EvaluateFailUnmarked(c) ==
    /\ req[c].pc = "evaluating"
    /\ req' = [req EXCEPT ![c].pc = "raised", ![c].raised = "AIEvaluationError"]
    /\ UNCHANGED <<hasAttrs, tech_skills, soft_skills, submissions, feedbacks, rs, dc,
                   catalogVars, attrVars>>

\* Step 5: ai.evaluate_submission raises; the submission is marked "error" and
\* AIEvaluationError leaves the call.
EvaluateFail(c) ==
    /\ req[c].pc = "evaluating"
    /\ submissions' = [submissions EXCEPT ![req[c].submission_id].status = "error"]
    /\ req' = [req EXCEPT ![c].pc = "raised", ![c].raised = "AIEvaluationError"]
    /\ UNCHANGED <<hasAttrs, tech_skills, soft_skills, feedbacks, rs, dc, catalogVars, attrVars>>

\* Step 6: create_submission_feedback.
SaveFeedback(c) ==
    /\ req[c].pc = "evaluated"
    /\ feedbacks' = Append(feedbacks,
                           [submission_id |-> req[c].submission_id,
                            score |-> req[c].eval_result[1].nota_geral])
    /\ req' = [req EXCEPT ![c].pc = "feedback_saved"]
    /\ UNCHANGED <<hasAttrs, tech_skills, soft_skills, submissions, rs, dc, catalogVars, attrVars>>

\* Step 7, neither branch: no affected skill, or no assessment of either shape.
SkipProgression(c) ==
    /\ req[c].pc = "feedback_saved"
    /\ req[c].path = "none"
    /\ req' = [req EXCEPT ![c].pc = "progressed"]
    /\ UNCHANGED <<hasAttrs, tech_skills, soft_skills, submissions, feedbacks, rs, dc, catalogVars, attrVars>>

\* The mutant of MultiRead: a profile with no attributes row is read as an
\* empty dict.
MultiReadDefaults(c) ==
    /\ req[c].pc = "feedback_saved"
    /\ req[c].path = "multi"
    /\ LET ch == Challenges[req[c].challenge_id]
           e == req[c].eval_result[1]
           is_soft_skill == ch.category = "daily-task"
           skill_type == IF is_soft_skill THEN "soft_skills" ELSE "tech_skills"
           r == [req[c] EXCEPT !.reads = Append(@, skill_type)]
           st == process_entries(
                     validated_assessment(e.skills_assessment, AffectedSkills(ch)), 1,
                     [current_skills |-> StoredSkills(skill_type), deltas |-> <<>>,
                      new_values |-> <<>>, raised |-> FALSE],
                     e.nota_geral, ch.level, req[c].attempts, is_soft_skill)
       IN req' = [req EXCEPT ![c] =
                    IF st.raised THEN ProgressionFailed(r)
                    ELSE [r EXCEPT
                            !.pc = "staged",
                            !.current_skills = st.current_skills,
                            !.staged = <<[skills_updated |->
                                             [i \in 1..Len(st.deltas) |-> st.deltas[i].k],
                                          deltas |-> st.deltas,
                                          new_values |-> st.new_values,
                                          skill_type |-> skill_type]>>]]
    /\ UNCHANGED <<hasAttrs, tech_skills, soft_skills, submissions, feedbacks, rs, dc,
                   catalogVars, attrVars>>

\* Step 7, new system: the validation, then process_multiple_skills up to its
\* write: the read of the skills and the loop over the validated assessment.
MultiRead(c) ==
    /\ req[c].pc = "feedback_saved"
    /\ req[c].path = "multi"
    /\ LET ch == Challenges[req[c].challenge_id]
           e == req[c].eval_result[1]
           is_soft_skill == ch.category = "daily-task"
           skill_type == IF is_soft_skill THEN "soft_skills" ELSE "tech_skills"
           r == [req[c] EXCEPT !.reads = Append(@, skill_type)]
           st == process_entries(
                     validated_assessment(e.skills_assessment, AffectedSkills(ch)), 1,
                     [current_skills |-> StoredSkills(skill_type), deltas |-> <<>>,
                      new_values |-> <<>>, raised |-> FALSE],
                     e.nota_geral, ch.level, req[c].attempts, is_soft_skill)
       IN req' = [req EXCEPT ![c] =
                    IF ~hasAttrs \/ st.raised THEN ProgressionFailed(r)
                    ELSE [r EXCEPT
                            !.pc = "staged",
                            !.current_skills = st.current_skills,
                            !.staged = <<[skills_updated |->
                                             [i \in 1..Len(st.deltas) |-> st.deltas[i].k],
                                          deltas |-> st.deltas,
                                          new_values |-> st.new_values,
                                          skill_type |-> skill_type]>>]]
    /\ UNCHANGED <<hasAttrs, tech_skills, soft_skills, submissions, feedbacks, rs, dc, catalogVars, attrVars>>

\* The mutant of MultiWrite: the update writes only the skills this call
\* changed into the dict stored now, and keeps the rest of it.
MultiWriteMerge(c, db_ok) ==
    /\ req[c].pc = "staged"
    /\ req[c].path = "multi"
    /\ LET sp == req[c].staged[1]
           stored == StoredSkills(sp.skill_type)
           merged == [i \in 1..Len(stored) |->
                        IF HasKey(sp.new_values, stored[i].k)
                        THEN KV(stored[i].k, DictGet(sp.new_values, stored[i].k))
                        ELSE stored[i]]
       IN /\ req' = [req EXCEPT ![c] =
                       [@ EXCEPT !.pc = "progressed", !.skills_progression = <<sp>>,
                                 !.writes = Append(@, sp.skill_type)]]
          /\ IF sp.skill_type = "soft_skills"
             THEN soft_skills' = merged /\ UNCHANGED tech_skills
             ELSE tech_skills' = merged /\ UNCHANGED soft_skills
    /\ UNCHANGED <<hasAttrs, submissions, feedbacks, rs, dc, catalogVars, attrVars>>

\* The mutant of MultiWrite: the update is issued only when a skill was
\* updated.
MultiWriteIfUpdated(c, db_ok) ==
    /\ req[c].pc = "staged"
    /\ req[c].path = "multi"
    /\ LET sp == req[c].staged[1]
           issued == sp.deltas # <<>>
           r == [req[c] EXCEPT !.writes = IF issued THEN Append(@, sp.skill_type) ELSE @]
           done == [r EXCEPT
                      !.pc = "progressed",
                      !.skills_progression = <<sp>>,
                      !.target_skill = IF sp.deltas # <<>> THEN sp.deltas[1].k ELSE @,
                      !.delta_applied = IF sp.deltas # <<>> THEN <<sp.deltas[1].v>> ELSE @,
                      !.updated_skill_value =
                          IF sp.deltas # <<>>
                          THEN <<DictGet(sp.new_values, sp.deltas[1].k)>> ELSE @]
       IN IF ~issued \/ (hasAttrs /\ db_ok)
          THEN /\ req' = [req EXCEPT ![c] = done]
               /\ IF sp.skill_type = "soft_skills"
                  THEN soft_skills' = req[c].current_skills /\ UNCHANGED tech_skills
                  ELSE tech_skills' = req[c].current_skills /\ UNCHANGED soft_skills
          ELSE /\ req' = [req EXCEPT ![c] = ProgressionFailed(r)]
               /\ UNCHANGED <<tech_skills, soft_skills>>
    /\ UNCHANGED <<hasAttrs, submissions, feedbacks, rs, dc, catalogVars, attrVars>>

\* The mutant of MultiWrite: the old fields are taken from the last skill of
\* deltas.
MultiWriteLastSkill(c, db_ok) ==
    /\ req[c].pc = "staged"
    /\ req[c].path = "multi"
    /\ LET sp == req[c].staged[1]
           last == Len(sp.deltas)
           r == [req[c] EXCEPT !.writes = Append(@, sp.skill_type)]
           done == [r EXCEPT
                      !.pc = "progressed",
                      !.skills_progression = <<sp>>,
                      !.target_skill = IF sp.deltas # <<>> THEN sp.deltas[last].k ELSE @,
                      !.delta_applied = IF sp.deltas # <<>> THEN <<sp.deltas[last].v>> ELSE @,
                      !.updated_skill_value =
                          IF sp.deltas # <<>>
                          THEN <<DictGet(sp.new_values, sp.deltas[last].k)>> ELSE @]
       IN IF hasAttrs /\ db_ok
          THEN /\ req' = [req EXCEPT ![c] = done]
               /\ IF sp.skill_type = "soft_skills"
                  THEN soft_skills' = req[c].current_skills /\ UNCHANGED tech_skills
                  ELSE tech_skills' = req[c].current_skills /\ UNCHANGED soft_skills
          ELSE /\ req' = [req EXCEPT ![c] = ProgressionFailed(r)]
               /\ UNCHANGED <<tech_skills, soft_skills>>
    /\ UNCHANGED <<hasAttrs, submissions, feedbacks, rs, dc, catalogVars, attrVars>>

\* The mutant of MultiWrite: the update stores new_values, the skills this
\* call updated, in place of the whole dict.
MultiWriteNewValues(c, db_ok) ==
    /\ req[c].pc = "staged"
    /\ req[c].path = "multi"
    /\ LET sp == req[c].staged[1]
           r == [req[c] EXCEPT !.writes = Append(@, sp.skill_type)]
           done == [r EXCEPT
                      !.pc = "progressed",
                      !.skills_progression = <<sp>>,
                      !.target_skill = IF sp.deltas # <<>> THEN sp.deltas[1].k ELSE @,
                      !.delta_applied = IF sp.deltas # <<>> THEN <<sp.deltas[1].v>> ELSE @,
                      !.updated_skill_value =
                          IF sp.deltas # <<>>
                          THEN <<DictGet(sp.new_values, sp.deltas[1].k)>> ELSE @]
       IN IF hasAttrs /\ db_ok
          THEN /\ req' = [req EXCEPT ![c] = done]
               /\ IF sp.skill_type = "soft_skills"
                  THEN soft_skills' = sp.new_values /\ UNCHANGED tech_skills
                  ELSE tech_skills' = sp.new_values /\ UNCHANGED soft_skills
          ELSE /\ req' = [req EXCEPT ![c] = ProgressionFailed(r)]
               /\ UNCHANGED <<tech_skills, soft_skills>>
    /\ UNCHANGED <<hasAttrs, submissions, feedbacks, rs, dc, catalogVars, attrVars>>

\* Step 7, new system: the write of process_multiple_skills, its return and the
\* old fields taken from the first skill.  db_ok: the repository does not raise.
MultiWrite(c, db_ok) ==
    /\ req[c].pc = "staged"
    /\ req[c].path = "multi"
    /\ LET sp == req[c].staged[1]
           r == [req[c] EXCEPT !.writes = Append(@, sp.skill_type)]
           done == [r EXCEPT
                      !.pc = "progressed",
                      !.skills_progression = <<sp>>,
                      !.target_skill = IF sp.deltas # <<>> THEN sp.deltas[1].k ELSE @,
                      !.delta_applied = IF sp.deltas # <<>> THEN <<sp.deltas[1].v>> ELSE @,
                      !.updated_skill_value =
                          IF sp.deltas # <<>>
                          THEN <<DictGet(sp.new_values, sp.deltas[1].k)>> ELSE @]
       IN IF hasAttrs /\ db_ok
          THEN /\ req' = [req EXCEPT ![c] = done]
               /\ IF sp.skill_type = "soft_skills"
                  THEN soft_skills' = req[c].current_skills /\ UNCHANGED tech_skills
                  ELSE tech_skills' = req[c].current_skills /\ UNCHANGED soft_skills
          ELSE /\ req' = [req EXCEPT ![c] = ProgressionFailed(r)]
               /\ UNCHANGED <<tech_skills, soft_skills>>
    /\ UNCHANGED <<hasAttrs, submissions, feedbacks, rs, dc, catalogVars, attrVars>>

\* Step 7, old system: get_tech_skills, calculate_skill_delta and
\* apply_skill_update on affected_skills[0].
LegacyRead(c) ==
    /\ req[c].pc = "feedback_saved"
    /\ req[c].path = "legacy"
    /\ LET ch == Challenges[req[c].challenge_id]
           e == req[c].eval_result[1]
           target_skill_name == AffectedSkills(ch)[1]
           r == [req[c] EXCEPT !.target_skill = target_skill_name]
           rd == [r EXCEPT !.reads = Append(@, "tech_skills")]
           skill_atual == DictGetDefault(tech_skills, target_skill_name, 50)
           delta == calculate_skill_delta(skill_atual, e.skill_assessment[1], ch.level,
                                          req[c].attempts)
       IN req' = [req EXCEPT ![c] =
                    IF target_skill_name = S_Empty THEN [r EXCEPT !.pc = "progressed"]
                    ELSE IF ~hasAttrs \/ IsMalformed(e.skill_assessment[1])
                    THEN ProgressionFailed(rd)
                    ELSE [rd EXCEPT
                            !.pc = "staged",
                            !.current_skills =
                                apply_skill_update(tech_skills, target_skill_name, delta),
                            !.staged = <<[delta |-> delta, skill_atual |-> skill_atual]>>]]
    /\ UNCHANGED <<hasAttrs, tech_skills, soft_skills, submissions, feedbacks, rs, dc, catalogVars, attrVars>>

\* Step 7, old system: update_tech_skills, then delta_applied and updated_value.
LegacyWrite(c, db_ok) ==
    /\ req[c].pc = "staged"
    /\ req[c].path = "legacy"
    /\ LET r == [req[c] EXCEPT !.writes = Append(@, "tech_skills")]
       IN IF hasAttrs /\ db_ok
          THEN /\ tech_skills' = req[c].current_skills
               /\ req' = [req EXCEPT ![c] =
                            [r EXCEPT
                               !.pc = "progressed",
                               !.delta_applied = <<req[c].staged[1].delta>>,
                               !.updated_skill_value =
                                   <<DictGetDefault(req[c].current_skills, r.target_skill,
                                                    req[c].staged[1].skill_atual)>>]]
          ELSE /\ req' = [req EXCEPT ![c] = ProgressionFailed(r)]
               /\ UNCHANGED tech_skills
    /\ UNCHANGED <<hasAttrs, soft_skills, submissions, feedbacks, rs, dc, catalogVars, attrVars>>

\* Step 8: update_submission to "scored", and the dict returned.
MarkScored(c) ==
    /\ req[c].pc = "progressed"
    /\ submissions' = [submissions EXCEPT ![req[c].submission_id].status = "scored"]
    /\ req' = [req EXCEPT
                 ![c].pc = "returned",
                 ![c].result = <<[submission_id |-> req[c].submission_id,
                                  status |-> "scored",
                                  score |-> req[c].eval_result[1].nota_geral,
                                  skills_progression |-> req[c].skills_progression,
                                  target_skill |-> req[c].target_skill,
                                  delta_applied |-> req[c].delta_applied,
                                  updated_skill_value |-> req[c].updated_skill_value]>>]
    /\ UNCHANGED <<hasAttrs, tech_skills, soft_skills, feedbacks, rs, dc, catalogVars, attrVars>>

\* Spec: the calls of one client, one after the other.
SeqClients == {"c1"}

Init ==
    /\ hasAttrs \in BOOLEAN
    /\ tech_skills \in (IF hasAttrs THEN InitialTechSkills ELSE {<<>>})
    /\ soft_skills \in (IF hasAttrs THEN InitialSoftSkills ELSE {<<>>})
    /\ submissions = <<>>
    /\ feedbacks = <<>>
    /\ req = [c \in Clients |-> IdleReq]
    /\ rs = IdleRs
    /\ dc = IdleDc
    /\ challenges = [id \in ChallengeIds |-> Profile]
    /\ gen = [IdleGen EXCEPT !.last_id = Cardinality(ChallengeIds)]
    /\ attributes = <<>>
    /\ http = <<>>

Next ==
    \E c \in SeqClients :
        \/ \E id \in ChallengeIds \cup {UnknownChallenge} : Start(c, id)
        \/ CountAttempts(c)
        \/ CreateSubmission(c)
        \/ MarkEvaluating(c)
        \/ EvaluateOk(c)
        \/ EvaluateFail(c)
        \/ SaveFeedback(c)
        \/ SkipProgression(c)
        \/ MultiRead(c)
        \/ \E db_ok \in BOOLEAN : MultiWrite(c, db_ok)
        \/ LegacyRead(c)
        \/ \E db_ok \in BOOLEAN : LegacyWrite(c, db_ok)
        \/ MarkScored(c)

Spec == Init /\ [][Next]_vars

-----------------------------------------------------------------------------
(* Claims on create_and_score_submission (Spec).                            *)

\* clamp(x, 0, 100) as the claims state it.
Clamp0To100(x) == IF x < 0 THEN 0 ELSE IF x > 100 THEN 100 ELSE x

LevelsInRange(d) == \A i \in 1..Len(d) : d[i].v \in 0..100

\* The challenge of the call of client c, and the skills it may influence.
ChallengeOf(c) == Challenges[req[c].challenge_id]

AllowList(c) == Range(AffectedSkills(ChallengeOf(c)))

\* The call of c has returned after a progression that was written.
ReturnedMulti(c) == req[c].pc = "returned" /\ req[c].skills_progression # <<>>

ReturnedLegacy(c) ==
    req[c].pc = "returned" /\ req[c].path = "legacy" /\ req[c].delta_applied # <<>>

\* The keys whose stored value differs from, or that are missing in, dict old.
ChangedKeys(old, new) ==
    {key \in DictKeys(new) : ~HasKey(old, key) \/ DictGet(old, key) # DictGet(new, key)}
        \cup (DictKeys(old) \ DictKeys(new))

\* C1: from skill dicts with every level in 0..100, after any sequence of calls
\* (new system or old single-skill fallback) every stored level of both dicts is
\* in 0..100, and each level written is clamp(level read + delta, 0, 100), the
\* level read being the fallback's default of 50 for a skill it did not find.
C1_ClampInvariant ==
    /\ LevelsInRange(tech_skills)
    /\ LevelsInRange(soft_skills)
    /\ \A c \in Clients :
          /\ ReturnedMulti(c) =>
                LET sp == req[c].skills_progression[1]
                    before == IF sp.skill_type = "soft_skills" THEN req[c].pre[1].soft
                              ELSE req[c].pre[1].tech
                IN \A i \in 1..Len(sp.deltas) :
                      DictGet(StoredSkills(sp.skill_type), sp.deltas[i].k)
                          = Clamp0To100(DictGet(before, sp.deltas[i].k) + sp.deltas[i].v)
          /\ ReturnedLegacy(c) =>
                DictGet(tech_skills, req[c].target_skill)
                    = Clamp0To100(DictGetDefault(req[c].pre[1].tech, req[c].target_skill, 50)
                                  + req[c].delta_applied[1])

\* A call has returned whose delta took a level beyond 100, stored as 100.
C1_Witness ==
    \E c \in Clients :
        /\ ReturnedMulti(c)
        /\ LET sp == req[c].skills_progression[1]
           IN \E i \in 1..Len(sp.deltas) :
                 /\ sp.skill_type = "tech_skills"
                 /\ DictGet(req[c].pre[1].tech, sp.deltas[i].k) + sp.deltas[i].v > 100
                 /\ DictGet(tech_skills, sp.deltas[i].k) = 100

\* C2: a scored submission changes the stored level only of skills named in the
\* challenge's affected_skills, and skills_updated names only such skills, also
\* when the label was resolved to the user's skill by a fuzzy or substring match.
C2_AllowList ==
    \A c \in Clients :
        req[c].pc = "returned" =>
            /\ ChangedKeys(req[c].pre[1].tech, tech_skills) \subseteq AllowList(c)
            /\ ChangedKeys(req[c].pre[1].soft, soft_skills) \subseteq AllowList(c)
            /\ req[c].skills_progression # <<>> =>
                  Range(req[c].skills_progression[1].skills_updated) \subseteq AllowList(c)

\* C3: scoring creates no skill entry: the keys of both dicts after a call, on
\* the new path and on the old single-skill path, are the keys before it.
C3_NoKeyCreated ==
    \A c \in Clients :
        req[c].pre # <<>> =>
            /\ DictKeys(tech_skills) = DictKeys(req[c].pre[1].tech)
            /\ DictKeys(soft_skills) = DictKeys(req[c].pre[1].soft)

\* C4: a call for a "daily-task" challenge reads and writes only soft_skills and
\* leaves tech_skills as they were, a call for any other category reads and
\* writes only tech_skills and leaves soft_skills as they were, on every path of
\* step 7; skill_type is "soft_skills" exactly for "daily-task".
C4_SkillTypeRouting ==
    \A c \in Clients :
        (req[c].pre # <<>> /\ req[c].challenge_id \in ChallengeIds) =>
            LET own == IF ChallengeOf(c).category = "daily-task" THEN "soft_skills"
                       ELSE "tech_skills"
            IN /\ Range(req[c].reads) \subseteq {own}
               /\ Range(req[c].writes) \subseteq {own}
               /\ own = "soft_skills" => tech_skills = req[c].pre[1].tech
               /\ own = "tech_skills" => soft_skills = req[c].pre[1].soft
               /\ req[c].skills_progression # <<>> =>
                     req[c].skills_progression[1].skill_type = own

\* The labels handed to process_multiple_skills by the call of c, in order.
ValidatedOf(c) ==
    validated_assessment(req[c].eval_result[1].skills_assessment,
                         AffectedSkills(ChallengeOf(c)))

\* The dict the progression of the call of c read.
BeforeOf(c) ==
    IF ChallengeOf(c).category = "daily-task" THEN req[c].pre[1].soft
    ELSE req[c].pre[1].tech

\* The positions of the validated assessment whose label resolves to skill u.
ResolvingTo(c, u) ==
    {i \in 1..Len(ValidatedOf(c)) :
        map_skill_to_user_skill(ValidatedOf(c)[i].k, BeforeOf(c),
                                ChallengeOf(c).category = "daily-task") = u}

Min(S) == CHOOSE x \in S : \A y \in S : x <= y

\* C5: when several assessed labels resolve to the same user skill, one delta is
\* applied to it: the one computed from the first such label in the order of
\* the assessment, from the level the skill had before the call; the later
\* labels change nothing.
C5_DedupFirstWins ==
    \A c \in Clients :
        ReturnedMulti(c) =>
            LET sp == req[c].skills_progression[1]
            IN \A u \in DictKeys(BeforeOf(c)) :
                  ResolvingTo(c, u) # {} =>
                     LET first == ValidatedOf(c)[Min(ResolvingTo(c, u))].v
                         d == calculate_skill_delta_v2(
                                  DictGet(BeforeOf(c), u), req[c].eval_result[1].nota_geral,
                                  first, ChallengeOf(c).level, req[c].attempts)
                     IN /\ Cardinality({i \in 1..Len(sp.deltas) : sp.deltas[i].k = u}) = 1
                        /\ DictGet(sp.deltas, u) = d
                        /\ DictGet(StoredSkills(sp.skill_type), u)
                              = Clamp0To100(DictGet(BeforeOf(c), u) + d)

\* A call has returned in which two labels resolve to one skill and the entry
\* of the second one would have given another delta.
C5_Witness ==
    \E c \in Clients :
        /\ ReturnedMulti(c)
        /\ \E u \in DictKeys(BeforeOf(c)) :
              \E i, j \in ResolvingTo(c, u) :
                 /\ i < j
                 /\ calculate_skill_delta_v2(
                        DictGet(BeforeOf(c), u), req[c].eval_result[1].nota_geral,
                        ValidatedOf(c)[j].v, ChallengeOf(c).level, req[c].attempts)
                      # DictGet(req[c].skills_progression[1].deltas, u)

\* C10: when step 7 raises (the read of the skills fails, the update fails, the
\* assessment is malformed) no exception leaves the call: it returns status
\* "scored" with skills_progression None, the submission row is "scored", and
\* the feedback with the score, created before step 7, is still stored.
C10_ProgressionNotFatal ==
    \A c \in Clients :
        req[c].prog_failed =>
            /\ req[c].raised = ""
            /\ req[c].pc \in {"progressed", "returned"}
            /\ \E i \in 1..Len(feedbacks) :
                  feedbacks[i] = [submission_id |-> req[c].submission_id,
                                  score |-> req[c].eval_result[1].nota_geral]
            /\ req[c].pc = "returned" =>
                  /\ req[c].result[1].status = "scored"
                  /\ req[c].result[1].skills_progression = <<>>
                  /\ submissions[req[c].submission_id].status = "scored"

\* A call has returned after the update of the skills raised.
C10_Witness ==
    \E c \in Clients :
        /\ req[c].pc = "returned"
        /\ req[c].prog_failed
        /\ req[c].writes # <<>>
        /\ req[c].result[1].status = "scored"

\* The same after the read of the skills raised for a profile with no attributes.
C10_WitnessRead ==
    \E c \in Clients :
        /\ req[c].pc = "returned" /\ req[c].prog_failed /\ ~hasAttrs

\* The same after a malformed assessment raised in the loop.
C10_WitnessMalformed ==
    \E c \in Clients :
        /\ req[c].pc = "returned" /\ req[c].prog_failed /\ hasAttrs
        /\ req[c].writes = <<>>

-----------------------------------------------------------------------------
(* Claims on the calculator (SpecDelta).                                    *)

\* C6: calculate_skill_delta_v2 returns 0 whenever progression_intensity is 0
\* or is missing from the assessment, whatever the level, the score (the
\* guardrail bands included), the demonstrated level, the difficulty and the
\* attempt number.
C6_ZeroIntensity ==
    (dc.done /\ (dc.assessment.int10 = <<>> \/ dc.assessment.int10 = <<0>>))
        => dc.delta = 0

\* A call with intensity 0, a score of the upper guardrail band and a gap.
C6_Witness ==
    /\ dc.done
    /\ dc.assessment.int10 = <<0>>
    /\ dc.nota_geral >= 90
    /\ dc.assessment.dem = <<100>>
    /\ dc.skill_atual = 50
    /\ dc.delta = 0

\* C7: with a score >= 90 a raw delta strictly between 0 and 3 is returned as
\* 3, with a score < 40 a raw delta strictly between -2 and 0 is returned as
\* -2; so no call with a score >= 90 returns 1 or 2 and no call with a score
\* < 40 returns -1.
C7_Guardrail ==
    dc.done =>
        /\ (dc.nota_geral >= 90 /\ DcGanho.sign = 1 /\ AbsLess(DcGanho, 3))
               => dc.delta = 3
        /\ (dc.nota_geral < 40 /\ DcGanho.sign = -1 /\ AbsLess(DcGanho, 2))
               => dc.delta = -2
        /\ dc.nota_geral >= 90 => dc.delta \notin {1, 2}
        /\ dc.nota_geral < 40 => dc.delta # -1

\* Level 70, score 30, demonstrated 65, intensity -0.4, medium, first attempt:
\* the raw delta is about -0.056 and the call returns -2.
C7_Witness ==
    /\ dc.done
    /\ dc.skill_atual = 70 /\ dc.nota_geral = 30
    /\ dc.assessment = [dem |-> <<65>>, int10 |-> <<-4>>]
    /\ dc.dificuldade_level = "medium" /\ dc.tentativas = 1
    /\ DcGanho.sign = -1 /\ AbsLess(DcGanho, 1)
    /\ dc.delta = -2

-----------------------------------------------------------------------------
(* Claims on the resolver (SpecResolver).                                   *)

\* C8: map_skill_to_user_skill returns None or a key of user_skills, for every
\* label, dict and value of is_soft_skill; with an empty dict it returns None.
C8_NoFabrication ==
    rs.done =>
        /\ rs.result = None \/ rs.result \in DictKeys(rs.user_skills)
        /\ rs.user_skills = <<>> => rs.result = None

\* A label that is no key is resolved to a key by the loops.
C8_Witness ==
    /\ rs.done
    /\ ~HasKey(rs.user_skills, rs.skill_name)
    /\ rs.result # None
    /\ rs.result \in DictKeys(rs.user_skills)

\* C9: a label that is literally (case-sensitively) a key of user_skills is
\* returned as it is, for soft and technical skills, also when a keyword
\* cluster or a substring match selects another key earlier in the dict.
C9_ExactPriority ==
    (rs.done /\ HasKey(rs.user_skills, rs.skill_name)) => rs.result = rs.skill_name

\* The label is the second key, and the soft-skill loop alone stops at the
\* first one.
C9_Witness ==
    /\ rs.done
    /\ rs.is_soft_skill
    /\ HasKey(rs.user_skills, rs.skill_name)
    /\ SoftSkillLoop(rs.skill_name, rs.user_skills, 1) \notin {None, rs.skill_name}
    /\ rs.result = rs.skill_name

\* The same on the technical side: the substring loop alone stops earlier.
C9_WitnessTech ==
    /\ rs.done
    /\ ~rs.is_soft_skill
    /\ HasKey(rs.user_skills, rs.skill_name)
    /\ TechSkillLoop(rs.skill_name, rs.user_skills, 1) \notin {None, rs.skill_name}
    /\ rs.result = rs.skill_name

-----------------------------------------------------------------------------
(* SpecRace: the calls of two clients of the same profile, interleaved at   *)
(* every repository and AI call.                                            *)

\* The challenges stored in the behaviours of SpecRace.
RaceChallengeIds == {1, 4, 5}

RaceInit ==
    /\ hasAttrs = TRUE
    /\ tech_skills = <<KV(S_SQL, 100), KV(S_JavaScript, 0), KV(S_Java, 50)>>
    /\ soft_skills = <<KV(S_equipe, 80), KV(S_Organizacao, 60)>>
    /\ submissions = <<>>
    /\ feedbacks = <<>>
    /\ req = [c \in Clients |-> IdleReq]
    /\ rs = IdleRs
    /\ dc = IdleDc
    /\ challenges = [id \in RaceChallengeIds |-> Profile]
    /\ gen = [IdleGen EXCEPT !.last_id = Cardinality(ChallengeIds)]
    /\ attributes = <<>>
    /\ http = <<>>

\* Each client makes one call.
RaceStart(c, id) == req[c].pc = "idle" /\ Start(c, id)

RaceNext ==
    \E c \in Clients :
        \/ \E id \in RaceChallengeIds \cup {UnknownChallenge} : RaceStart(c, id)
        \/ CountAttempts(c)
        \/ CreateSubmission(c)
        \/ MarkEvaluating(c)
        \/ EvaluateOk(c)
        \/ EvaluateFail(c)
        \/ SaveFeedback(c)
        \/ SkipProgression(c)
        \/ MultiRead(c)
        \/ \E db_ok \in BOOLEAN : MultiWrite(c, db_ok)
        \/ LegacyRead(c)
        \/ \E db_ok \in BOOLEAN : LegacyWrite(c, db_ok)
        \/ MarkScored(c)

SpecRace == RaceInit /\ [][RaceNext]_vars

\* C11: the update of process_multiple_skills stores the whole dict the call
\* read and modified in memory, whatever is stored at that moment: no lock, no
\* version check, no merge.  Interleaved calls can then lose a delta.
C11_LastWriteWins ==
    [][\A c \in Clients :
          (/\ req[c].pc = "staged"
           /\ req[c].path = "multi"
           /\ req'[c].pc = "progressed"
           /\ ~req'[c].prog_failed)
          => LET skill_type == req[c].staged[1].skill_type
             IN IF skill_type = "soft_skills"
                THEN soft_skills' = req[c].current_skills
                ELSE tech_skills' = req[c].current_skills]_vars

\* Both calls have returned a progression of the same dict; what is stored is
\* the dict of c, and a skill u that only the call of d moved, and that d
\* reported as updated, is stored at the level it had before both calls.
C11_Witness ==
    \E c, d \in Clients :
        /\ c # d
        /\ ReturnedMulti(c) /\ ReturnedMulti(d)
        /\ req[c].skills_progression[1].skill_type = "tech_skills"
        /\ req[d].skills_progression[1].skill_type = "tech_skills"
        /\ tech_skills = req[c].current_skills
        /\ \E i \in 1..Len(req[d].skills_progression[1].deltas) :
              LET u == req[d].skills_progression[1].deltas[i].k
              IN /\ req[d].skills_progression[1].deltas[i].v # 0
                 /\ ~HasKey(req[c].skills_progression[1].deltas, u)
                 /\ DictGet(tech_skills, u) = DictGet(req[d].pre[1].tech, u)
                 /\ DictGet(tech_skills, u)
                      # DictGet(req[d].skills_progression[1].new_values, u)

-----------------------------------------------------------------------------
(* More claims on create_and_score_submission (Spec).                       *)

\* The feedback rows of a submission.
FeedbacksOf(submission_id) ==
    {i \in 1..Len(feedbacks) : feedbacks[i].submission_id = submission_id}

\* C12: when ai.evaluate_submission raises, the call raises AIEvaluationError
\* with the submission it created stored as "error"; no feedback row exists for
\* it, no skill dict was read or written, both dicts are as they were, nothing
\* is returned, and no submission stored as "error" has a feedback row.
C12_AIFailure ==
    /\ \A c \in Clients :
          req[c].raised = "AIEvaluationError" =>
             /\ req[c].pc = "raised"
             /\ req[c].submission_id \in 1..Len(submissions)
             /\ submissions[req[c].submission_id].status = "error"
             /\ FeedbacksOf(req[c].submission_id) = {}
             /\ req[c].reads = <<>> /\ req[c].writes = <<>>
             /\ tech_skills = req[c].pre[1].tech
             /\ soft_skills = req[c].pre[1].soft
             /\ req[c].result = <<>>
    /\ \A i \in 1..Len(submissions) :
          submissions[i].status = "error" => FeedbacksOf(i) = {}

\* A call has raised AIEvaluationError after an earlier call was scored with
\* its skills moved.
C12_Witness ==
    \E c \in Clients :
        /\ req[c].raised = "AIEvaluationError"
        /\ req[c].submission_id > 1
        /\ submissions[req[c].submission_id].status = "error"
        /\ submissions[1].status = "scored"
        /\ tech_skills # <<>>

-----------------------------------------------------------------------------
(* SpecCatalog: ChallengeService.generate_challenges_for_profile between    *)
(* the calls of create_and_score_submission of one client.                  *)

\* `count` of the route: the challenges kept of what the AI generated.
GenerateCount == 3

\* select count(Submission.id) where challenge_id == ch.id, > 0
HasSubmissions(id) ==
    \E i \in 1..Len(submissions) : submissions[i].challenge_id = id

\* The mutant of challenges_to_delete: every challenge of the profile.
challenges_to_delete_all(profile_id) ==
    {id \in DOMAIN challenges : challenges[id] = profile_id}

\* SqlRepo.delete_challenges_for_profile: the rows of the profile that have no
\* submission.
challenges_to_delete(profile_id) ==
    {id \in DOMAIN challenges : challenges[id] = profile_id /\ ~HasSubmissions(id)}

\* get_attributes finds a row: the followed profile has one when hasAttrs, the
\* other stored profile has one.
HasAttributes(profile_id) == IF profile_id = Profile THEN hasAttrs ELSE TRUE

\* generate_challenges_for_profile(profile_id), the AI answering n challenges
\* (already cut to count) or raising.  The new rows take the next ids.
Generate(profile_id, n, ai_ok) ==
    /\ \A c \in Clients : ~InFlight(c)
    /\ gen.last_id + n <= Cardinality(ChallengeIds)
    /\ ~ai_ok => n = 0
    /\ LET raised == IF profile_id \notin StoredProfiles THEN "ProfileNotFoundError"
                     ELSE IF ~HasAttributes(profile_id) THEN "AttributesNotFoundError"
                     ELSE IF ~ai_ok THEN "Exception"
                     ELSE ""
           deleting == raised \in {"", "Exception"}
           to_delete == IF deleting THEN challenges_to_delete(profile_id) ELSE {}
           kept == [id \in DOMAIN challenges \ to_delete |-> challenges[id]]
           created == IF raised = "" THEN (gen.last_id + 1)..(gen.last_id + n) ELSE {}
       IN /\ challenges' = [id \in DOMAIN kept \cup created |->
                               IF id \in created THEN profile_id ELSE kept[id]]
          /\ gen' = [last_id |-> gen.last_id + Cardinality(created),
                     call |-> <<[profile_id |-> profile_id,
                                 raised |-> raised,
                                 before |-> challenges,
                                 submitted |-> {id \in DOMAIN challenges : HasSubmissions(id)},
                                 after_delete |-> kept,
                                 deleted_count |-> IF deleting THEN <<Cardinality(to_delete)>>
                                                   ELSE <<>>,
                                 created |-> created]>>]
    /\ UNCHANGED <<hasAttrs, tech_skills, soft_skills, submissions, feedbacks, req, rs, dc,
                   attrVars>>

\* Challenges 1 and 3 of the followed profile and 2 of the other are stored.
CatalogInit ==
    /\ hasAttrs \in BOOLEAN
    /\ tech_skills = (IF hasAttrs THEN <<KV(S_Java, 98), KV(S_SQL, 1)>> ELSE <<>>)
    /\ soft_skills = (IF hasAttrs THEN <<KV(S_equipe, 80), KV(S_Organizacao, 60)>> ELSE <<>>)
    /\ submissions = <<>>
    /\ feedbacks = <<>>
    /\ req = [c \in Clients |-> IdleReq]
    /\ rs = IdleRs
    /\ dc = IdleDc
    /\ challenges = [id \in {1, 2, 3} |-> IF id = 2 THEN OtherProfile ELSE Profile]
    /\ gen = [IdleGen EXCEPT !.last_id = Cardinality(DOMAIN challenges)]
    /\ attributes = <<>>
    /\ http = <<>>

\* The challenges submitted to: the two that can be generated.
CatalogChallengeIds == {4, 5}

CatalogNext ==
    \/ \E c \in SeqClients :
          \/ \E id \in CatalogChallengeIds \cup {UnknownChallenge} : Start(c, id)
          \/ CountAttempts(c)
          \/ CreateSubmission(c)
          \/ MarkEvaluating(c)
          \/ EvaluateOk(c)
          \/ EvaluateFail(c)
          \/ SaveFeedback(c)
          \/ SkipProgression(c)
          \/ MultiRead(c)
          \/ \E db_ok \in BOOLEAN : MultiWrite(c, db_ok)
          \/ LegacyRead(c)
          \/ \E db_ok \in BOOLEAN : LegacyWrite(c, db_ok)
          \/ MarkScored(c)
    \/ \E profile_id \in StoredProfiles \cup {UnknownProfile}, n \in 0..GenerateCount,
          ai_ok \in BOOLEAN : Generate(profile_id, n, ai_ok)

SpecCatalog == CatalogInit /\ [][CatalogNext]_vars

\* C13: every challenge that has a submission is stored; and the delete of the
\* last generate call removed exactly the challenges of its profile that had no
\* submission, left every other row as it was, and returned how many it removed.
C13_HistoryPreserved ==
    /\ \A i \in 1..Len(submissions) : submissions[i].challenge_id \in DOMAIN challenges
    /\ \A k \in 1..Len(gen.call) :
          LET g == gen.call[k]
              removed == DOMAIN g.before \ DOMAIN g.after_delete
          IN g.deleted_count # <<>> =>
                /\ DOMAIN g.after_delete \subseteq DOMAIN g.before
                /\ removed = {id \in DOMAIN g.before :
                                 g.before[id] = g.profile_id /\ id \notin g.submitted}
                /\ \A id \in DOMAIN g.after_delete : g.after_delete[id] = g.before[id]
                /\ g.deleted_count[1] = Cardinality(removed)

\* A generate call of the followed profile removed a challenge while one of its
\* challenges with a submission, and the other profile's challenge with none,
\* stayed.
C13_Witness ==
    /\ gen.call # <<>>
    /\ gen.call[1].profile_id = Profile
    /\ gen.call[1].deleted_count = <<1>>
    /\ \E id \in DOMAIN gen.call[1].after_delete :
          id \in gen.call[1].submitted /\ gen.call[1].before[id] = Profile
    /\ \E id \in DOMAIN gen.call[1].after_delete :
          id \notin gen.call[1].submitted /\ gen.call[1].before[id] = OtherProfile

-----------------------------------------------------------------------------
(* SpecAttributes: the routes GET /attributes, GET /attributes/{profile_id} *)
(* and PATCH /attributes/{profile_id} over the attributes table.            *)

CareerGoals == {<<"b", "a", "c", "k">>, <<"d", "a", "t", "a">>}

AttributeSkills == {<<>>, <<KV(S_Java, 50)>>, <<KV(S_SQL, 100), KV(S_Java, 0)>>}

\* A row of the table; career_goal is <<>> for None.
AttributeRows == [career_goal : Optional(CareerGoals), tech_skills : AttributeSkills]

\* body.model_dump(exclude_unset=True): a field is <<>> when it was not sent.
AttributePatches == [career_goal : Optional(CareerGoals), tech_skills : Optional(AttributeSkills)]

\* get_http_status_code
get_http_status_code(error) ==
    CASE error = "AuthorizationError" -> 403
      [] error = "AttributesNotFoundError" -> 404
      [] OTHER -> 500

\* The mutant of IsOwnRequest: every path profile_id is taken as the user's.
IsAnyRequest(profile_id, current_user) == TRUE

\* `if profile_id != current_user.id: raise AuthorizationError`, negated
IsOwnRequest(profile_id, current_user) == profile_id = current_user

\* SqlRepo.update_attributes on the row of profile_id
update_attributes(row, patch) ==
    IF row = <<>>
    THEN <<[career_goal |-> patch.career_goal,
            tech_skills |-> IF patch.tech_skills = <<>> THEN <<>> ELSE patch.tech_skills[1]]>>
    ELSE <<[career_goal |-> IF patch.career_goal # <<>> THEN patch.career_goal
                            ELSE row[1].career_goal,
            tech_skills |-> IF patch.tech_skills # <<>> /\ patch.tech_skills[1] # <<>>
                            THEN patch.tech_skills[1]
                            ELSE row[1].tech_skills]>>

\* The answer to a request: status, body and the repository calls it made.
Answer(method, current_user, profile_id, status, answer_body, repo_calls) ==
    <<[method |-> method, current_user |-> current_user, profile_id |-> profile_id,
       status |-> status, body |-> answer_body, repo_calls |-> repo_calls]>>

\* GET /attributes/{profile_id}
GetAttributesRoute(current_user, profile_id) ==
    /\ http' =
         IF ~IsOwnRequest(profile_id, current_user)
         THEN Answer("GET", current_user, profile_id,
                     get_http_status_code("AuthorizationError"), <<>>, <<>>)
         ELSE IF profile_id \notin DOMAIN attributes \/ attributes[profile_id] = <<>>
         THEN Answer("GET", current_user, profile_id,
                     get_http_status_code("AttributesNotFoundError"), <<>>,
                     <<[op |-> "get_attributes", profile_id |-> profile_id]>>)
         ELSE Answer("GET", current_user, profile_id, 200, attributes[profile_id],
                     <<[op |-> "get_attributes", profile_id |-> profile_id]>>)
    /\ UNCHANGED <<hasAttrs, tech_skills, soft_skills, submissions, feedbacks, req, rs, dc,
                   catalogVars, attributes>>

\* GET /attributes: the attributes of the user of the token
GetMyAttributesRoute(current_user) ==
    /\ http' =
         IF attributes[current_user] = <<>>
         THEN Answer("GET", current_user, current_user,
                     get_http_status_code("AttributesNotFoundError"), <<>>,
                     <<[op |-> "get_attributes", profile_id |-> current_user]>>)
         ELSE Answer("GET", current_user, current_user, 200, attributes[current_user],
                     <<[op |-> "get_attributes", profile_id |-> current_user]>>)
    /\ UNCHANGED <<hasAttrs, tech_skills, soft_skills, submissions, feedbacks, req, rs, dc,
                   catalogVars, attributes>>

\* PATCH /attributes/{profile_id}
PatchAttributesRoute(current_user, profile_id, patch) ==
    /\ IF ~IsOwnRequest(profile_id, current_user)
       THEN /\ http' = Answer("PATCH", current_user, profile_id,
                              get_http_status_code("AuthorizationError"), <<>>, <<>>)
            /\ UNCHANGED attributes
       ELSE LET row == IF profile_id \in DOMAIN attributes
                       THEN update_attributes(attributes[profile_id], patch)
                       ELSE <<>>
            IN /\ profile_id \in DOMAIN attributes
               /\ attributes' = [attributes EXCEPT ![profile_id] = row]
               /\ http' = Answer("PATCH", current_user, profile_id, 200, row,
                                 <<[op |-> "update_attributes", profile_id |-> profile_id]>>)
    /\ UNCHANGED <<hasAttrs, tech_skills, soft_skills, submissions, feedbacks, req, rs, dc,
                   catalogVars>>

\* Each user has a row or none.
AttributesInit ==
    /\ hasAttrs = FALSE
    /\ tech_skills = <<>>
    /\ soft_skills = <<>>
    /\ submissions = <<>>
    /\ feedbacks = <<>>
    /\ req = [c \in Clients |-> IdleReq]
    /\ rs = IdleRs
    /\ dc = IdleDc
    /\ challenges = <<>>
    /\ gen = IdleGen
    /\ attributes \in [StoredProfiles -> {<<>>} \cup {<<row>> : row \in AttributeRows}]
    /\ http = <<>>

AttributesNext ==
    \E current_user \in StoredProfiles :
        \/ \E profile_id \in StoredProfiles : GetAttributesRoute(current_user, profile_id)
        \/ GetMyAttributesRoute(current_user)
        \/ \E profile_id \in StoredProfiles, patch \in AttributePatches :
              PatchAttributesRoute(current_user, profile_id, patch)

SpecAttributes == AttributesInit /\ [][AttributesNext]_vars

\* C14: a GET or PATCH /attributes/{profile_id} whose profile_id is not the id
\* of the authenticated user is answered 403 with no body and no repository
\* call; a body answered is the row of the user who asked; and a request leaves
\* the row of every other user as it was.
C14_OwnerOnly ==
    /\ [](\A k \in 1..Len(http) :
             /\ http[k].profile_id # http[k].current_user =>
                   /\ http[k].status = 403
                   /\ http[k].body = <<>>
                   /\ http[k].repo_calls = <<>>
             /\ \A j \in 1..Len(http[k].repo_calls) :
                   http[k].repo_calls[j].profile_id = http[k].current_user
             /\ http[k].body # <<>> => http[k].body = attributes[http[k].current_user])
    /\ [][\A u \in StoredProfiles :
             (http' # <<>> /\ http'[1].current_user # u) => attributes'[u] = attributes[u]]_vars

\* A PATCH by one user on the row of the other was refused, that row exists.
C14_Witness ==
    /\ http # <<>>
    /\ http[1].method = "PATCH"
    /\ http[1].profile_id # http[1].current_user
    /\ http[1].status = 403
    /\ attributes[http[1].profile_id] # <<>>

\* A GET by one user of the row of the other was refused, that row exists.
C14_WitnessGet ==
    /\ http # <<>>
    /\ http[1].method = "GET"
    /\ http[1].profile_id # http[1].current_user
    /\ http[1].status = 403
    /\ attributes[http[1].profile_id] # <<>>

-----------------------------------------------------------------------------
(* Claims on the progression step of create_and_score_submission (Spec).    *)

\* The skills_assessment the AI answered to the call of c, and the positions
\* of its labels that are members of affected_skills.
AssessmentOf(c) == req[c].eval_result[1].skills_assessment

AllowedPositions(c) == {i \in 1..Len(AssessmentOf(c)) : AssessmentOf(c)[i].k \in AllowList(c)}

\* C15: the assessment handed to process_multiple_skills holds exactly the
\* entries of the AI's skills_assessment whose label is in affected_skills, in
\* their order and unchanged; so every skill a call moved was resolved from a
\* label of affected_skills.
C15_ValidationPass ==
    \A c \in Clients :
        (req[c].eval_result # <<>> /\ req[c].path = "multi") =>
           /\ Len(ValidatedOf(c)) = Cardinality(AllowedPositions(c))
           /\ \A j \in 1..Len(ValidatedOf(c)) :
                 \E i \in AllowedPositions(c) :
                    /\ Cardinality({m \in AllowedPositions(c) : m < i}) = j - 1
                    /\ ValidatedOf(c)[j] = AssessmentOf(c)[i]
           /\ req[c].staged # <<>> =>
                 \A k \in 1..Len(req[c].staged[1].deltas) :
                    \E i \in AllowedPositions(c) :
                       map_skill_to_user_skill(AssessmentOf(c)[i].k, BeforeOf(c),
                                               ChallengeOf(c).category = "daily-task")
                         = req[c].staged[1].deltas[k].k

\* A call has returned whose assessment had, between two labels of
\* affected_skills, a label outside it that is a key of the user's dict: that
\* skill was not moved.
C15_Witness ==
    \E c \in Clients :
        /\ ReturnedMulti(c)
        /\ \E i \in 1..Len(AssessmentOf(c)) :
              /\ i \notin AllowedPositions(c)
              /\ \E a, b \in AllowedPositions(c) : a < i /\ i < b
              /\ HasKey(BeforeOf(c), AssessmentOf(c)[i].k)
              /\ ~HasKey(req[c].skills_progression[1].deltas, AssessmentOf(c)[i].k)
              /\ DictGet(StoredSkills(req[c].skills_progression[1].skill_type),
                         AssessmentOf(c)[i].k)
                   = DictGet(BeforeOf(c), AssessmentOf(c)[i].k)

-----------------------------------------------------------------------------
(* More claims on map_skill_to_user_skill (SpecResolver).                   *)

\* The keyword clusters in the precedence the claim gives them.
Clusters == <<comunicacao_keywords, organizacao_keywords, resolucao_keywords>>

\* The clusters matched by the label of the call in rs and by one of its keys.
SharedClusters ==
    {n \in 1..Len(Clusters) :
        /\ AnyKeywordIn(Clusters[n], Lower(rs.skill_name))
        /\ \E i \in 1..Len(rs.user_skills) :
              AnyKeywordIn(Clusters[n], Lower(rs.user_skills[i].k))}

\* C16: for a soft skill whose label is no key, when the label and some key
\* match a same cluster, the key returned matches the first cluster, in the
\* order communication, organization, problem solving, that the label and
\* some key both match, whatever the order of the keys.
C16_ClusterPrecedence ==
    (rs.done /\ rs.is_soft_skill /\ ~HasKey(rs.user_skills, rs.skill_name)
             /\ SharedClusters # {}) =>
        /\ HasKey(rs.user_skills, rs.result)
        /\ \A n \in SharedClusters :
              (\A m \in SharedClusters : n <= m) =>
                 AnyKeywordIn(Clusters[n], Lower(rs.result))

-----------------------------------------------------------------------------
(* Claims on process_multiple_skills inside a call (Spec).                  *)

\* The assessment handed to process_multiple_skills by the call of c without
\* the labels that resolve to no skill of the dict it read.
ResolvedOnly(c) ==
    SelectSeq(ValidatedOf(c),
              LAMBDA e : map_skill_to_user_skill(e.k, BeforeOf(c),
                             ChallengeOf(c).category = "daily-task") # None)

\* The loop of process_multiple_skills over an assessment, for the call of c.
LoopOf(c, assessment) ==
    process_entries(assessment, 1,
                    [current_skills |-> BeforeOf(c), deltas |-> <<>>, new_values |-> <<>>,
                     raised |-> FALSE],
                    req[c].eval_result[1].nota_geral, ChallengeOf(c).level, req[c].attempts,
                    ChallengeOf(c).category = "daily-task")

\* C17: a label that resolves to no skill of the user is skipped: the deltas,
\* the new values and the dict written by a call are those of the same call
\* without these labels, and the call raises in the loop only if it would
\* without them.
C17_UnmappedIsolated ==
    \A c \in Clients :
        (req[c].path = "multi" /\ req[c].reads # <<>> /\ hasAttrs) =>
           /\ req[c].staged # <<>> =>
                 /\ ~LoopOf(c, ResolvedOnly(c)).raised
                 /\ req[c].staged[1].deltas = LoopOf(c, ResolvedOnly(c)).deltas
                 /\ req[c].staged[1].new_values = LoopOf(c, ResolvedOnly(c)).new_values
                 /\ req[c].current_skills = LoopOf(c, ResolvedOnly(c)).current_skills
           /\ req[c].staged = <<>> => LoopOf(c, ResolvedOnly(c)).raised
           /\ ReturnedMulti(c) =>
                 StoredSkills(req[c].skills_progression[1].skill_type)
                    = LoopOf(c, ResolvedOnly(c)).current_skills

\* A call has returned with a skill moved whose label came after a label that
\* resolved to no skill of the user.
C17_Witness ==
    \E c \in Clients :
        /\ ReturnedMulti(c)
        /\ \E i, j \in 1..Len(ValidatedOf(c)) :
              /\ i < j
              /\ map_skill_to_user_skill(ValidatedOf(c)[i].k, BeforeOf(c),
                                         ChallengeOf(c).category = "daily-task") = None
              /\ \E k \in 1..Len(req[c].skills_progression[1].deltas) :
                    /\ req[c].skills_progression[1].deltas[k].k
                         = map_skill_to_user_skill(ValidatedOf(c)[j].k, BeforeOf(c),
                                ChallengeOf(c).category = "daily-task")
                    /\ req[c].skills_progression[1].deltas[k].v # 0

\* The skill dict process_multiple_skills works on for the call of c.
SkillTypeOf(c) ==
    IF ChallengeOf(c).category = "daily-task" THEN "soft_skills" ELSE "tech_skills"

\* C18: a process_multiple_skills call that returned made one get and one
\* update, both on its skill type, the update after the loop (none is issued
\* while the result is only staged) and with the whole dict, also when no skill
\* was updated; a call that raised in the loop issued no update and left the
\* stored dict as it was.
C18_OneReadOneWrite ==
    \A c \in Clients :
        req[c].path = "multi" =>
           /\ req[c].skills_progression # <<>> =>
                 /\ req[c].reads = <<SkillTypeOf(c)>>
                 /\ req[c].writes = <<SkillTypeOf(c)>>
                 /\ req[c].skills_progression[1].skill_type = SkillTypeOf(c)
                 /\ StoredSkills(SkillTypeOf(c)) = req[c].current_skills
                 /\ DictKeys(req[c].current_skills) = DictKeys(BeforeOf(c))
           /\ req[c].pc = "staged" =>
                 /\ req[c].reads = <<SkillTypeOf(c)>>
                 /\ req[c].writes = <<>>
                 /\ StoredSkills(SkillTypeOf(c)) = BeforeOf(c)
           /\ (req[c].prog_failed /\ req[c].staged = <<>>) =>
                 /\ req[c].reads = <<SkillTypeOf(c)>>
                 /\ req[c].writes = <<>>
                 /\ tech_skills = req[c].pre[1].tech
                 /\ soft_skills = req[c].pre[1].soft

\* A call has returned a progression with no skill updated, its one update
\* issued.
C18_Witness ==
    \E c \in Clients :
        /\ ReturnedMulti(c)
        /\ req[c].skills_progression[1].deltas = <<>>
        /\ req[c].reads = <<SkillTypeOf(c)>>
        /\ req[c].writes = <<SkillTypeOf(c)>>

\* The loop of a call has raised on a malformed entry after it had changed a
\* skill in memory: nothing was written.
C18_WitnessRaised ==
    \E c \in Clients :
        /\ req[c].path = "multi" /\ req[c].prog_failed /\ req[c].staged = <<>> /\ hasAttrs
        /\ req[c].writes = <<>>
        /\ LoopOf(c, ValidatedOf(c)).deltas # <<>>

\* C19: when the profile has no attributes row, the read of
\* process_multiple_skills raises and the failure reaches its caller: no result
\* is staged or returned, no update is issued, and no level is stored for the
\* profile.
C19_MissingMapSurfaces ==
    \A c \in Clients :
        (req[c].path = "multi" /\ ~hasAttrs /\ req[c].reads # <<>>) =>
           /\ req[c].prog_failed
           /\ req[c].reads = <<SkillTypeOf(c)>>
           /\ req[c].staged = <<>>
           /\ req[c].skills_progression = <<>>
           /\ req[c].current_skills = <<>>
           /\ req[c].writes = <<>>
           /\ tech_skills = <<>> /\ soft_skills = <<>>

\* A call for a challenge with assessed skills has got past step 7 for a
\* profile with no attributes row.
C19_Witness ==
    \E c \in Clients :
        /\ req[c].path = "multi" /\ ~hasAttrs
        /\ req[c].pc \in {"progressed", "returned"}
        /\ req[c].reads # <<>>
        /\ ValidatedOf(c) # <<>>

\* The skill of the user the first resolvable label of the call of c resolves to.
FirstProcessed(c) ==
    map_skill_to_user_skill(ResolvedOnly(c)[1].k, BeforeOf(c),
                            ChallengeOf(c).category = "daily-task")

\* C20: in the result of a call on the multi-skill path, when deltas is not
\* empty target_skill is its first key, the first skill processed,
\* delta_applied is deltas[target_skill] and updated_skill_value is
\* new_values[target_skill]; when deltas is empty, or no progression was
\* returned, the three fields are None.
C20_CompatFields ==
    \A c \in Clients :
        (req[c].pc = "returned" /\ req[c].path = "multi") =>
           LET res == req[c].result[1]
           IN IF res.skills_progression # <<>> /\ res.skills_progression[1].deltas # <<>>
              THEN /\ res.target_skill = res.skills_progression[1].deltas[1].k
                   /\ res.target_skill = FirstProcessed(c)
                   /\ res.delta_applied
                        = <<DictGet(res.skills_progression[1].deltas, res.target_skill)>>
                   /\ res.updated_skill_value
                        = <<DictGet(res.skills_progression[1].new_values, res.target_skill)>>
              ELSE /\ res.target_skill = None
                   /\ res.delta_applied = <<>>
                   /\ res.updated_skill_value = <<>>

\* A call has returned two skills moved by different deltas to different new
\* values.
C20_Witness ==
    \E c \in Clients :
        /\ req[c].pc = "returned" /\ req[c].path = "multi"
        /\ req[c].result[1].skills_progression # <<>>
        /\ LET sp == req[c].result[1].skills_progression[1]
           IN /\ Len(sp.deltas) = 2
              /\ sp.deltas[1].v # sp.deltas[2].v
              /\ sp.new_values[1].v # sp.new_values[2].v
              /\ req[c].result[1].delta_applied = <<sp.deltas[1].v>>

\* A call has returned a progression with empty deltas and the three old
\* fields None.
C20_WitnessEmpty ==
    \E c \in Clients :
        /\ req[c].pc = "returned" /\ req[c].path = "multi"
        /\ req[c].result[1].skills_progression # <<>>
        /\ req[c].result[1].skills_progression[1].deltas = <<>>
        /\ req[c].result[1].target_skill = None

-----------------------------------------------------------------------------
(* Claims on the choice of the branch of step 7 and on the formula applied. *)

\* The call of c has got past step 7 on a branch that applies a progression.
Progressed(c) ==
    req[c].pc \in {"progressed", "returned"} /\ req[c].path \in {"multi", "legacy"}

\* C21: a call whose challenge declares no affected_skills and only a
\* target_skill applies its progression on the single-skill legacy branch, and
\* a call whose challenge declares a non-empty affected_skills applies it on
\* the multi-skill branch, never on the legacy one.
C21_LegacySelection ==
    \A c \in Clients :
        Progressed(c) =>
           IF ChallengeOf(c).affected_skills = <<>>
           THEN req[c].path = "legacy"
           ELSE req[c].path = "multi"

\* The delta calculate_skill_delta_v2 gives for the level, the score, the
\* assessment, the difficulty and the attempt number of the legacy call of c.
LegacyDeltaV2(c) ==
    calculate_skill_delta_v2(
        DictGetDefault(req[c].pre[1].tech, req[c].target_skill, 50),
        req[c].eval_result[1].nota_geral, req[c].eval_result[1].skill_assessment[1],
        ChallengeOf(c).level, req[c].attempts)

\* C22: on every branch of step 7, the legacy single-skill branch included, the
\* delta applied to a skill is the one calculate_skill_delta_v2 gives for the
\* same level, score, assessment, difficulty and attempt number.
C22_OneFormula ==
    \A c \in Clients :
        /\ ReturnedLegacy(c) => req[c].delta_applied = <<LegacyDeltaV2(c)>>
        /\ ReturnedMulti(c) =>
              LET sp == req[c].skills_progression[1]
                  before == IF sp.skill_type = "soft_skills" THEN req[c].pre[1].soft
                            ELSE req[c].pre[1].tech
              IN \A i \in 1..Len(sp.deltas) :
                    \E j \in 1..Len(ValidatedOf(c)) :
                        sp.deltas[i].v =
                            calculate_skill_delta_v2(
                                DictGet(before, sp.deltas[i].k),
                                req[c].eval_result[1].nota_geral, ValidatedOf(c)[j].v,
                                ChallengeOf(c).level, req[c].attempts)

-----------------------------------------------------------------------------
(* Claims on calculate_skill_delta_v2 (SpecDelta): direction and attempts.  *)

\* C23: a call of calculate_skill_delta_v2 with a score below 50 returns a
\* delta <= 0 and a call with a score of 50 or more returns a delta >= 0,
\* whatever the gap and the intensity.
C23_DirectionByBand ==
    dc.done =>
        /\ dc.nota_geral < 50 => dc.delta <= 0
        /\ dc.nota_geral >= 50 => dc.delta >= 0

\* The delta of the call in dc had it been attempt number n.
DcDeltaAt(n) ==
    calculate_skill_delta_v2(dc.skill_atual, dc.nota_geral, dc.assessment,
                             dc.dificuldade_level, n)

-----------------------------------------------------------------------------
(* SpecFaults: create_and_score_submission over a submissions repository    *)
(* whose calls can raise once the row of the submission is stored.          *)

\* Step 4: update_submission raises; the exception leaves the call.
MarkEvaluatingRaises(c) ==
    /\ req[c].pc = "created"
    /\ req' = [req EXCEPT ![c].pc = "raised", ![c].raised = "Exception"]
    /\ UNCHANGED <<hasAttrs, tech_skills, soft_skills, submissions, feedbacks, rs, dc,
                   catalogVars, attrVars>>

\* Step 5: ai.evaluate_submission raises and the update_submission of the
\* except clause raises in its turn; that exception leaves the call.
EvaluateFailUpdateRaises(c) ==
    /\ req[c].pc = "evaluating"
    /\ req' = [req EXCEPT ![c].pc = "raised", ![c].raised = "Exception"]
    /\ UNCHANGED <<hasAttrs, tech_skills, soft_skills, submissions, feedbacks, rs, dc,
                   catalogVars, attrVars>>

\* Step 6: create_submission_feedback raises; the exception leaves the call.
SaveFeedbackRaises(c) ==
    /\ req[c].pc = "evaluated"
    /\ req' = [req EXCEPT ![c].pc = "raised", ![c].raised = "Exception"]
    /\ UNCHANGED <<hasAttrs, tech_skills, soft_skills, submissions, feedbacks, rs, dc,
                   catalogVars, attrVars>>

\* Step 8: update_submission raises; the exception leaves the call.
MarkScoredRaises(c) ==
    /\ req[c].pc = "progressed"
    /\ req' = [req EXCEPT ![c].pc = "raised", ![c].raised = "Exception"]
    /\ UNCHANGED <<hasAttrs, tech_skills, soft_skills, submissions, feedbacks, rs, dc,
                   catalogVars, attrVars>>

\* The challenges stored in the behaviours of SpecFaults.
FaultsChallengeIds == {3, 4, 5}

FaultsInit ==
    /\ hasAttrs = TRUE
    /\ tech_skills = <<KV(S_Java, 98), KV(S_SQL, 1)>>
    /\ soft_skills = <<KV(S_equipe, 80), KV(S_Organizacao, 60)>>
    /\ submissions = <<>>
    /\ feedbacks = <<>>
    /\ req = [c \in Clients |-> IdleReq]
    /\ rs = IdleRs
    /\ dc = IdleDc
    /\ challenges = [id \in FaultsChallengeIds |-> Profile]
    /\ gen = [IdleGen EXCEPT !.last_id = Cardinality(ChallengeIds)]
    /\ attributes = <<>>
    /\ http = <<>>

FaultsNext ==
    \E c \in SeqClients :
        \/ \E id \in FaultsChallengeIds \cup {UnknownChallenge} : Start(c, id)
        \/ CountAttempts(c)
        \/ CreateSubmission(c)
        \/ MarkEvaluating(c)
        \/ MarkEvaluatingRaises(c)
        \/ EvaluateOk(c)
        \/ EvaluateFail(c)
        \/ EvaluateFailUpdateRaises(c)
        \/ SaveFeedback(c)
        \/ SaveFeedbackRaises(c)
        \/ SkipProgression(c)
        \/ MultiRead(c)
        \/ \E db_ok \in BOOLEAN : MultiWrite(c, db_ok)
        \/ LegacyRead(c)
        \/ \E db_ok \in BOOLEAN : LegacyWrite(c, db_ok)
        \/ MarkScored(c)
        \/ MarkScoredRaises(c)

SpecFaults == FaultsInit /\ [][FaultsNext]_vars

\* The status changes create_and_score_submission may make.
StatusSteps ==
    {<<"sent", "evaluating">>, <<"evaluating", "scored">>, <<"evaluating", "error">>}

\* C25: a submission is stored as "sent"; its status then only moves
\* sent -> evaluating -> scored or sent -> evaluating -> error; the AI answers
\* or fails only for a submission stored as "evaluating"; "scored" is set only
\* when a feedback row of the submission exists; a status of "scored" or
\* "error" is never changed; a call that returned left "scored" and a call that
\* raised AIEvaluationError left "error".
C25_StatusLifecycle ==
    /\ [](\A c \in Clients :
            /\ req[c].pc = "returned" =>
                  submissions[req[c].submission_id].status = "scored"
            /\ req[c].raised = "AIEvaluationError" =>
                  submissions[req[c].submission_id].status = "error")
    /\ [][/\ Len(submissions') >= Len(submissions)
          /\ \A i \in 1..Len(submissions') :
                IF i > Len(submissions) THEN submissions'[i].status = "sent"
                ELSE \/ submissions'[i].status = submissions[i].status
                     \/ /\ <<submissions[i].status, submissions'[i].status>> \in StatusSteps
                        /\ submissions'[i].status = "scored" => FeedbacksOf(i) # {}
          /\ \A c \in Clients :
                (req[c].pc = "evaluating" /\ req'[c].pc # "evaluating")
                    => submissions[req[c].submission_id].status = "evaluating"]_vars

\* One submission is stored as "scored" with its feedback row and a later one
\* as "error".
C25_Witness ==
    \E i, j \in 1..Len(submissions) :
        /\ i < j
        /\ submissions[i].status = "scored" /\ FeedbacksOf(i) # {}
        /\ submissions[j].status = "error" /\ FeedbacksOf(j) = {}

\* C28: whenever a call has returned or raised after it stored its submission,
\* a failing repository call after the AI's evaluation included, that
\* submission is stored as "scored" or "error", never as "sent" or
\* "evaluating".
C28_NoSubmissionInFlight ==
    \A c \in Clients :
        (req[c].pc \in {"returned", "raised"} /\ req[c].submission_id # 0) =>
            submissions[req[c].submission_id].status \in {"scored", "error"}

-----------------------------------------------------------------------------
(* Claims on the result and the frame of process_multiple_skills (Spec).    *)

\* The keys of a dict in their order.
KeySeq(d) == [i \in 1..Len(d) |-> d[i].k]

\* C26: in the result of process_multiple_skills, skills_updated is the keys
\* of deltas, which are the keys of new_values, each skill once; and for each
\* of them new_values is clamp(level read + delta, 0, 100) and is the level of
\* the skill in the dict handed to the repository update.
C26_ResultConsistent ==
    \A c \in Clients :
        (req[c].path = "multi" /\ req[c].staged # <<>>) =>
           LET sp == req[c].staged[1]
           IN /\ sp.skills_updated = KeySeq(sp.deltas)
              /\ KeySeq(sp.new_values) = KeySeq(sp.deltas)
              /\ \A i, j \in 1..Len(sp.skills_updated) :
                    i # j => sp.skills_updated[i] # sp.skills_updated[j]
              /\ \A i \in 1..Len(sp.deltas) :
                    /\ HasKey(BeforeOf(c), sp.deltas[i].k)
                    /\ sp.new_values[i].v
                         = Clamp0To100(DictGet(BeforeOf(c), sp.deltas[i].k)
                                       + sp.deltas[i].v)
                    /\ DictGet(req[c].current_skills, sp.deltas[i].k)
                         = sp.new_values[i].v
              /\ req[c].skills_progression # <<>> =>
                    /\ req[c].skills_progression[1] = sp
                    /\ StoredSkills(sp.skill_type) = req[c].current_skills

\* A call has returned two skills updated, one of them held at 100 by the
\* clamp.
C26_Witness ==
    \E c \in Clients :
        /\ ReturnedMulti(c)
        /\ LET sp == req[c].skills_progression[1]
           IN /\ Len(sp.skills_updated) = 2
              /\ \E i \in 1..2 :
                    /\ sp.new_values[i].v = 100
                    /\ DictGet(BeforeOf(c), sp.deltas[i].k) + sp.deltas[i].v > 100

\* The stored dict of the type the call of c does not work on, now and when
\* the call started.
OtherStored(c) == IF SkillTypeOf(c) = "soft_skills" THEN tech_skills ELSE soft_skills

OtherBefore(c) ==
    IF SkillTypeOf(c) = "soft_skills" THEN req[c].pre[1].tech ELSE req[c].pre[1].soft

\* The skills of dict d that are not listed in skills_updated.
NotUpdated(d, skills_updated) == DictKeys(d) \ Range(skills_updated)

\* C27: in the dict process_multiple_skills hands to the update, and in the
\* dict stored once the update is made, every skill not listed in
\* skills_updated has the level it had in the dict that was read; the dict of
\* the other type is neither read nor written and stays as it was.
C27_Frame ==
    \A c \in Clients :
        req[c].path = "multi" =>
           /\ \A i \in 1..Len(req[c].reads) : req[c].reads[i] = SkillTypeOf(c)
           /\ \A i \in 1..Len(req[c].writes) : req[c].writes[i] = SkillTypeOf(c)
           /\ OtherStored(c) = OtherBefore(c)
           /\ req[c].staged # <<>> =>
                 \A key \in NotUpdated(BeforeOf(c), req[c].staged[1].skills_updated) :
                     /\ HasKey(req[c].current_skills, key)
                     /\ DictGet(req[c].current_skills, key) = DictGet(BeforeOf(c), key)
           /\ req[c].skills_progression # <<>> =>
                 \A key \in NotUpdated(BeforeOf(c),
                                       req[c].skills_progression[1].skills_updated) :
                     /\ HasKey(StoredSkills(SkillTypeOf(c)), key)
                     /\ DictGet(StoredSkills(SkillTypeOf(c)), key) = DictGet(BeforeOf(c), key)

\* A call has returned a progression that moved one skill of a dict of three
\* and left the two others, and the dict of the other type, as they were.
C27_Witness ==
    \E c \in Clients :
        /\ ReturnedMulti(c)
        /\ Len(BeforeOf(c)) = 3
        /\ Len(req[c].skills_progression[1].skills_updated) = 1
        /\ req[c].skills_progression[1].deltas[1].v # 0
        /\ StoredSkills(SkillTypeOf(c)) # BeforeOf(c)
        /\ OtherStored(c) # <<>>

-----------------------------------------------------------------------------
(* Claim on the attempt numbers of interleaved calls (SpecRace).            *)

\* The submissions stored before row i for the challenge of row i; every row
\* is of the followed profile.
EarlierAttempts(i) ==
    {j \in 1..(i - 1) : submissions[j].challenge_id = submissions[i].challenge_id}

\* C29: the attempt_number of a stored submission is 1 plus the number of
\* submissions stored before it for the same profile and challenge, those in
\* "error" counted; so, under any interleaving of the calls, no two submissions
\* of the same pair carry the same attempt_number.
C29_AttemptNumbering ==
    /\ \A i \in 1..Len(submissions) :
          submissions[i].attempt_number = 1 + Cardinality(EarlierAttempts(i))
    /\ \A i, j \in 1..Len(submissions) :
          (i # j /\ submissions[i].challenge_id = submissions[j].challenge_id)
              => submissions[i].attempt_number # submissions[j].attempt_number

-----------------------------------------------------------------------------
(* Claim on a generate call that raises (SpecCatalog).                      *)

\* The challenges of a profile in a table of challenges.
ChallengesOfProfile(table, profile_id) == {id \in DOMAIN table : table[id] = profile_id}

\* C30: after a generate_challenges_for_profile call that raised (profile not
\* found, attributes not found, or the AI failing) the challenges stored for
\* the profile are those stored before the call; and a call removed old
\* challenges only if it stored new ones.
C30_FailedGenerationChangesNothing ==
    gen.call # <<>> =>
        LET g == gen.call[1]
        IN /\ g.raised # "" =>
                 ChallengesOfProfile(challenges, g.profile_id)
                     = ChallengesOfProfile(g.before, g.profile_id)
           /\ DOMAIN g.after_delete # DOMAIN g.before => g.created # {}

====
